---------------------------- MODULE Spec2Model ----------------------------
(***************************************************************************)
(* Model of the FA archiver: the transform stage (transposition, index     *)
(* maintenance, interlocked index lookup) and the disk writer (block       *)
(* directory maintenance and header flushing).                             *)
(*                                                                         *)
(* Conventions.                                                            *)
(*  - A uint32 value is represented by the int32 value with the same bit   *)
(*    pattern, so that the conversion between fa_entry.x (int32) and       *)
(*    data_index.id_zero (uint32) keeps the bits and addition modulo 2^32  *)
(*    is Add32.                                                            *)
(*  - Timestamps are microsecond counts; the model keeps them far below    *)
(*    2^31 so that the uint64 arithmetic of the code never wraps.          *)
(***************************************************************************)
EXTENDS Integers, Sequences, FiniteSets, TLC

(***************************************************************************)
(* Bounds of the model.                                                    *)
(***************************************************************************)
\* Number of process_block calls explored.
MaxCalls == 5
\* Number of ids in one FA frame (FA_ENTRY_COUNT of fa_sniffer.h).
FA_ENTRY_COUNT == 3

(***************************************************************************)
(* Program constants.                                                      *)
(***************************************************************************)
INDEX_SKIP == 2
MAX_DELTA_T == 1000
INT32_MAX == 2147483647
INT32_MIN == -INT32_MAX - 1

(***************************************************************************)
(* Fixed width arithmetic.                                                 *)
(***************************************************************************)
\* a + b modulo 2^32 on int32 representatives, for 0 <= b.
Add32(a, b) ==
    IF a > INT32_MAX - b
    THEN (a - INT32_MAX - 1) + (b - INT32_MAX - 1)
    ELSE a + b

\* Arithmetic shift right: floor(v / 2^s).
Shr(v, s) == v \div (2 ^ s)

Min(a, b) == IF a < b THEN a ELSE b

Abs(v) == IF v < 0 THEN -v ELSE v

\* The number of bits of n >= 0: the least k with n < 2^k.
RECURSIVE BitLenFrom(_, _)
BitLenFrom(n, k) == IF n < 2 ^ k THEN k ELSE BitLenFrom(n, k + 1)
BitLen(n) == BitLenFrom(n, 0)

(***************************************************************************)
(* Wide naturals: the values of the 64 and 128 bit integers and of the     *)
(* mantissas of the doubles of the variance calculation, which the         *)
(* integers of the model do not hold.  A wide natural is the sequence of   *)
(* its digits in base 2^15, least significant first, without leading zero  *)
(* digits; zero is the empty sequence.                                     *)
(***************************************************************************)
LimbBase == 2 ^ 15
LimbBits == BitLen(LimbBase) - 1

RECURSIVE WNorm(_)
WNorm(a) ==
    IF a = << >> THEN a
    ELSE IF a[Len(a)] = 0 THEN WNorm(SubSeq(a, 1, Len(a) - 1))
    ELSE a

\* The wide natural of n >= 0.
RECURSIVE WFromNat(_)
WFromNat(n) ==
    IF n = 0 THEN << >>
    ELSE << n % LimbBase >> \o WFromNat(n \div LimbBase)

Limb(a, i) == IF i <= Len(a) THEN a[i] ELSE 0

\* a + b + carry, from digit i up.
RECURSIVE WAddFrom(_, _, _, _)
WAddFrom(a, b, i, carry) ==
    IF i > Len(a) /\ i > Len(b)
    THEN IF carry = 0 THEN << >> ELSE << carry >>
    ELSE LET sum == Limb(a, i) + Limb(b, i) + carry
         IN  << sum % LimbBase >>
                \o WAddFrom(a, b, i + 1, sum \div LimbBase)

WAdd(a, b) == WAddFrom(a, b, 1, 0)

\* a - b - borrow for a >= b, from digit i up.
RECURSIVE WSubFrom(_, _, _, _)
WSubFrom(a, b, i, borrow) ==
    IF i > Len(a) THEN << >>
    ELSE LET diff == Limb(a, i) - Limb(b, i) - borrow
         IN  IF diff < 0
             THEN << diff + LimbBase >> \o WSubFrom(a, b, i + 1, 1)
             ELSE << diff >> \o WSubFrom(a, b, i + 1, 0)

WSub(a, b) == WNorm(WSubFrom(a, b, 1, 0))

\* a < b, comparing the digits from digit i down.
RECURSIVE WLessFrom(_, _, _)
WLessFrom(a, b, i) ==
    IF i = 0 THEN FALSE
    ELSE IF a[i] # b[i] THEN a[i] < b[i]
    ELSE WLessFrom(a, b, i - 1)

WLess(a, b) ==
    IF Len(a) # Len(b) THEN Len(a) < Len(b) ELSE WLessFrom(a, b, Len(a))

\* a * d + carry for a digit d, from digit i up.
RECURSIVE WMulLimbFrom(_, _, _, _)
WMulLimbFrom(a, d, i, carry) ==
    IF i > Len(a)
    THEN IF carry = 0 THEN << >> ELSE << carry >>
    ELSE LET prod == a[i] * d + carry
         IN  << prod % LimbBase >>
                \o WMulLimbFrom(a, d, i + 1, prod \div LimbBase)

WMulLimb(a, d) == IF d = 0 THEN << >> ELSE WMulLimbFrom(a, d, 1, 0)

\* a * LimbBase^n.
WShlLimbs(a, n) == IF a = << >> THEN a ELSE [i \in 1..n |-> 0] \o a

\* a * b, by the digits of b from digit i up.
RECURSIVE WMulFrom(_, _, _)
WMulFrom(a, b, i) ==
    IF i > Len(b) THEN << >>
    ELSE WAdd(WMulLimb(a, b[i]), WShlLimbs(WMulFrom(a, b, i + 1), 1))

WMul(a, b) == WMulFrom(a, b, 1)

\* a * 2^bits.
WShl(a, bits) ==
    WShlLimbs(WMulLimb(a, 2 ^ (bits % LimbBits)), bits \div LimbBits)

\* The remainder of the digits of a from digit i up, divided by d.
RECURSIVE WRemFrom(_, _, _)
WRemFrom(a, d, i) ==
    IF i > Len(a) THEN 0
    ELSE (WRemFrom(a, d, i + 1) * LimbBase + a[i]) % d

\* floor(a / d) for a digit d >= 1.
WDivLimb(a, d) ==
    WNorm([i \in 1..Len(a) |->
              (WRemFrom(a, d, i + 1) * LimbBase + a[i]) \div d])

\* floor(a / 2^bits).
WShr(a, bits) ==
    LET limbs == bits \div LimbBits
    IN  IF limbs >= Len(a) THEN << >>
        ELSE WDivLimb(SubSeq(a, limbs + 1, Len(a)), 2 ^ (bits % LimbBits))

\* a modulo 2^bits.
WLow(a, bits) == WSub(a, WShl(WShr(a, bits), bits))

WBitLen(a) ==
    IF a = << >> THEN 0
    ELSE LimbBits * (Len(a) - 1) + BitLen(a[Len(a)])

\* The double nearest to the wide natural a: a rounded to 53 significant
\* bits, to even when half way.
RoundToDouble(a) ==
    LET drop == WBitLen(a) - 53
        kept == WShr(a, drop)
        rest == WSub(a, WShl(kept, drop))
        half == WShl(<< 1 >>, drop - 1)
        up == WLess(half, rest) \/ (rest = half /\ kept[1] % 2 = 1)
    IN  IF drop <= 0 THEN a
        ELSE WShl(IF up THEN WAdd(kept, << 1 >>) ELSE kept, drop)

\* floor(sqrt(a)) for a wide natural a below 2^62, found bit by bit.
RECURSIVE WSqrtFrom(_, _, _)
WSqrtFrom(a, root, bit) ==
    IF bit < 0 THEN root
    ELSE LET try == WFromNat(root + 2 ^ bit)
         IN  IF WLess(a, WMul(try, try))
             THEN WSqrtFrom(a, root, bit - 1)
             ELSE WSqrtFrom(a, root + 2 ^ bit, bit - 1)

WSqrt(a) == WSqrtFrom(a, 0, WBitLen(a) \div 2)


(***************************************************************************)
(* State of the transform stage (transform.c).                             *)
(***************************************************************************)
VARIABLES
    header,             \* struct disk_header fields used by the transform
    data_index,         \* archiver index, one entry per major block
    dd_area,            \* double decimated data area
    buffers,            \* the two major buffers receiving data
    current_buffer,     \* index of buffer currently receiving data
    fa_offset,          \* current sample count into current block
    d_offset,           \* current decimated sample count
    double_accumulators,\* result accumulators for double decimation
    dd_offset,          \* current offset into DD data area
    first_timestamp,    \* first timestamp of the major block
    timestamp_array,    \* timestamps relative to first_timestamp
    timestamp_index,    \* current index into timestamp_array
    input_frame_count,  \* frames in a single input block
    transform_lock,     \* owner of transform_lock, or Free
    scheduled,          \* sequence of writes handed to schedule_write
    t_pc,               \* position of the thread calling process_block
    r_pc,               \* position of the reader thread
    r_query,            \* the reader's request
    r_seen,             \* what the reader saw when it took the lock
    r_result,           \* the reader's result
    now,                \* timestamp of the last block delivered
    frame_counter,      \* id 0 x field of the next frame (hardware counter)
    calls,              \* number of process_block calls so far
    run_blocks,         \* non-gap blocks since the last advance or gap
    recent,             \* the blocks received since the last advance or gap
    gap_seen,           \* a gap was seen since the last advance
    last_event          \* what the last process_block call was given

tvars == << header, data_index, dd_area, buffers, current_buffer, fa_offset,
            d_offset, double_accumulators, dd_offset, first_timestamp,
            timestamp_array, timestamp_index, input_frame_count,
            transform_lock, scheduled, t_pc, r_pc, r_query, r_seen,
            r_result, now, frame_counter, calls, run_blocks, recent,
            gap_seen, last_event >>

Free == "free"
Transform == "transform"
Reader == "reader"


(***************************************************************************)
(* Archive geometry.  The header is prepared by a separate tool; these are *)
(* the geometries the model runs with:                                     *)
(* major_sample_count is a multiple of the input block's frame count and   *)
(* of the double decimation factor.                                        *)
(***************************************************************************)
FA_FRAME_SIZE == 8 * FA_ENTRY_COUNT

Geometry(ifc, msc, d1, d2, n, mask) ==
    [ major_block_count      |-> n,
      current_major_block    |-> 0,
      major_sample_count     |-> msc,
      first_decimation_log2  |-> d1,
      second_decimation_log2 |-> d2,
      input_block_size       |-> ifc * FA_FRAME_SIZE,
      major_data_start       |-> 4096,
      major_block_size       |->
          Cardinality(mask) * (8 * msc + 32 * Shr(msc, d1)),
      dd_sample_count        |-> Shr(msc, d1 + d2),
      dd_total_count         |-> n * Shr(msc, d1 + d2),
      archive_mask           |-> mask,
      last_duration          |-> 0 ]

\* Each setup is a header with the initial value of the hardware frame
\* counter (uint32 2^32-3, or 2^31-3 where id 0 is not archived).
\* The index of a freshly prepared archive.
FreshIndex(n) ==
    [i \in 0..(n - 1) |-> [timestamp |-> 0, duration |-> 0, id_zero |-> 0]]

FreshArchive ==
    [hdr |-> Geometry(2, 4, 1, 1, 3, {0, 2}), index |-> FreshIndex(3),
     counter |-> -3]

\* An archive left by an earlier run with its last major block current.
UsedArchive ==
    [hdr |-> [Geometry(2, 6, 1, 0, 3, {0, 2}) EXCEPT
                 !.current_major_block = 2, !.last_duration = 30],
     index |-> [i \in 0..2 |->
                  IF i < 2
                  THEN [timestamp |-> 100 + 30 * i, duration |-> 30,
                        id_zero |-> 6 * i]
                  ELSE [timestamp |-> 0, duration |-> 0, id_zero |-> 0]],
     counter |-> -3]

\* A fresh archive fed one frame at a time, four to the major block,
\* without first decimation.
FineArchive ==
    [hdr |-> Geometry(1, 4, 0, 1, 3, {0, 2}), index |-> FreshIndex(3),
     counter |-> -3]

Setups ==
    { FreshArchive,
      [hdr |-> Geometry(2, 4, 1, 1, 3, {1, 2}), index |-> FreshIndex(3),
       counter |-> INT32_MAX - 2],
      UsedArchive,
      FineArchive }

\* Inputs of one data block: time since the previous block and the sample
\* carried by the ids other than 0.
BlockInputs == { [dt |-> 10, s |-> -3], [dt |-> 12, s |-> 4] }
\* A gap: time lost and frames lost.
GapInputs == { [dt |-> 50, lost |-> 5] }
StartTime == 1000

\* The frames of one input block, frames[1..input_frame_count], each a row
\* of FA_ENTRY_COUNT entries; id 0 carries the frame counter in x.
MakeBlock(counter, s, ifc) ==
    [ f \in 1..ifc |->
        [ id \in 0..(FA_ENTRY_COUNT - 1) |->
            IF id = 0 THEN [x |-> Add32(counter, f - 1), y |-> 0]
            ELSE [x |-> s + id * (f - 1), y |-> -s] ] ]

(***************************************************************************)
(* Mask support.                                                           *)
(***************************************************************************)
test_mask_bit(mask, id) == id \in mask

count_mask_bits(mask) ==
    Cardinality({ id \in 0..(FA_ENTRY_COUNT - 1) : test_mask_bit(mask, id) })

\* The value of the counter `written` when the loop over ids reaches id.
Written(mask, id) ==
    Cardinality({ j \in 0..(id - 1) : test_mask_bit(mask, j) })

\* The id whose column is the written-th archived column.
ArchivedId(mask, w) ==
    CHOOSE id \in 0..(FA_ENTRY_COUNT - 1) :
        test_mask_bit(mask, id) /\ Written(mask, id) = w

output_id_count == count_mask_bits(header.archive_mask)
input_decimation_count == Shr(input_frame_count, header.first_decimation_log2)
timestamp_count == header.major_sample_count \div input_frame_count


(***************************************************************************)
(* Support for variance calculation and decimation.                        *)
(***************************************************************************)
\* The 128 bit accumulator of the builds with built-in 128 bit integers.
accum128_64(acc, val) == WLow(WAdd(acc, val), 128)

accum128_128(acc, val) == WLow(WAdd(acc, val), 128)

\* The shifted accumulator, returned in 64 bits.
sr128(acc, shift) == WLow(WShr(acc, shift), 64)

\* (int64_t) v * v of an int32 v, passed on as a uint64.
Squared(v) == WMul(WFromNat(Abs(v)), WFromNat(Abs(v)))

initialise_accum ==
    [ minx |-> INT32_MAX, maxx |-> INT32_MIN,
      miny |-> INT32_MAX, maxy |-> INT32_MIN,
      sumx |-> 0, sumy |-> 0, sum_sq_x |-> << >>, sum_sq_y |-> << >> ]

accum_xy(acc, input) ==
    [ minx |-> IF input.x < acc.minx THEN input.x ELSE acc.minx,
      maxx |-> IF acc.maxx < input.x THEN input.x ELSE acc.maxx,
      miny |-> IF input.y < acc.miny THEN input.y ELSE acc.miny,
      maxy |-> IF acc.maxy < input.y THEN input.y ELSE acc.maxy,
      sumx |-> acc.sumx + input.x,
      sumy |-> acc.sumy + input.y,
      sum_sq_x |-> accum128_64(acc.sum_sq_x, Squared(input.x)),
      sum_sq_y |-> accum128_64(acc.sum_sq_y, Squared(input.y)) ]

accum_accum(result, input) ==
    [ minx |-> IF input.minx < result.minx THEN input.minx ELSE result.minx,
      maxx |-> IF result.maxx < input.maxx THEN input.maxx ELSE result.maxx,
      miny |-> IF input.miny < result.miny THEN input.miny ELSE result.miny,
      maxy |-> IF result.maxy < input.maxy THEN input.maxy ELSE result.maxy,
      sumx |-> result.sumx + input.sumx,
      sumy |-> result.sumy + input.sumy,
      sum_sq_x |-> accum128_128(result.sum_sq_x, input.sum_sq_x),
      sum_sq_y |-> accum128_128(result.sum_sq_y, input.sum_sq_y) ]

\* (int32_t) sqrt(var) for var = sr128(acc, shift) - mean * mean when var > 0,
\* else zero, in the arithmetic of doubles.  mean = sum / 2^shift is exact.
\* Every double here is a multiple of 4^-shift and is held as that multiple:
\* mean_sq is the rounded square of the mean, shifted the accumulator after
\* its conversion to double, var their rounded difference.  The square root
\* is rounded to the nearest double before it is truncated: it reaches
\* floor_root + 1 when the root lies within half a unit in the last place of
\* it, that is when (floor_root + 1)^2 - var is below
\* (floor_root + 1) * 2^(exponent - 52).
compute_std(acc, sum, shift) ==
    LET scale == 2 * shift
        mean_sq == RoundToDouble(Squared(sum))
        shifted == WShl(RoundToDouble(sr128(acc, shift)), scale)
        var == RoundToDouble(WSub(shifted, mean_sq))
        floor_root == WSqrt(WShr(var, scale))
        next == WFromNat(floor_root + 1)
        short == WSub(WShl(WMul(next, next), scale), var)
        exponent == BitLen(floor_root) - 1
        rounds_up == WLess(WShl(short, 52 - exponent), WShl(next, scale))
    IN  IF WLess(mean_sq, shifted)
        THEN IF rounds_up THEN floor_root + 1 ELSE floor_root
        ELSE 0

\* A variant of compute_result whose mean is rounded towards zero.
compute_result_truncating(acc, shift) ==
    [ min  |-> [x |-> acc.minx, y |-> acc.miny],
      max  |-> [x |-> acc.maxx, y |-> acc.maxy],
      mean |-> [x |-> IF acc.sumx < 0 THEN -Shr(-acc.sumx, shift)
                      ELSE Shr(acc.sumx, shift),
                y |-> IF acc.sumy < 0 THEN -Shr(-acc.sumy, shift)
                      ELSE Shr(acc.sumy, shift)],
      std  |-> [x |-> compute_std(acc.sum_sq_x, acc.sumx, shift),
                y |-> compute_std(acc.sum_sq_y, acc.sumy, shift)] ]

compute_result(acc, shift) ==
    [ min  |-> [x |-> acc.minx, y |-> acc.miny],
      max  |-> [x |-> acc.maxx, y |-> acc.maxy],
      mean |-> [x |-> Shr(acc.sumx, shift), y |-> Shr(acc.sumy, shift)],
      std  |-> [x |-> compute_std(acc.sum_sq_x, acc.sumx, shift),
                y |-> compute_std(acc.sum_sq_y, acc.sumy, shift)] ]

\* The accumulator of the n entries of column id starting at frame from.
RECURSIVE AccumColumn(_, _, _, _)
AccumColumn(block, id, from, n) ==
    IF n = 0 THEN initialise_accum
    ELSE accum_xy(AccumColumn(block, id, from, n - 1), block[from + n - 1][id])

\* decimate_column_one on the i-th group (from 0) of column id.
decimate_column_one(block, id, i, N_log2) ==
    AccumColumn(block, id, i * (2 ^ N_log2) + 1, 2 ^ N_log2)

\* The double accumulator of column id after decimate_column.
RECURSIVE decimate_column_accum(_, _, _, _)
decimate_column_accum(block, id, double_accum, n) ==
    IF n = 0 THEN double_accum
    ELSE accum_accum(
            decimate_column_accum(block, id, double_accum, n - 1),
            decimate_column_one(
                block, id, n - 1, header.first_decimation_log2))


(***************************************************************************)
(* Index maintenance.                                                      *)
(***************************************************************************)
RECURSIVE SumXT(_, _)
SumXT(arr, n) ==
    IF n = 0 THEN 0
    ELSE SumXT(arr, n - 1) + arr[n - 1] * (2 * (n - 1) - timestamp_count + 1)

RECURSIVE SumX(_, _)
SumX(arr, n) == IF n = 0 THEN 0 ELSE SumX(arr, n - 1) + arr[n - 1]

sum_t2 == ((timestamp_count * timestamp_count - 1) * timestamp_count) \div 3

\* A variant of advance_index that takes the slope over an interval of
\* timestamp_count.
advance_index_entry_half_interval ==
    LET sum_xt == SumXT(timestamp_array, timestamp_count)
        sum_x  == SumX(timestamp_array, timestamp_count)
    IN  [ duration  |-> (timestamp_count * sum_xt) \div sum_t2,
          timestamp |-> first_timestamp + sum_x \div timestamp_count
                            - ((timestamp_count + 1) * sum_xt) \div sum_t2 ]

\* A variant of advance_index that computes the starting timestamp at
\* t = -timestamp_count from centre.
advance_index_entry_late_start ==
    LET sum_xt == SumXT(timestamp_array, timestamp_count)
        sum_x  == SumX(timestamp_array, timestamp_count)
    IN  [ duration  |-> (2 * timestamp_count * sum_xt) \div sum_t2,
          timestamp |-> first_timestamp + sum_x \div timestamp_count
                            - (timestamp_count * sum_xt) \div sum_t2 ]

\* The index entry advance_index computes for the current major block.
advance_index_entry ==
    LET sum_xt == SumXT(timestamp_array, timestamp_count)
        sum_x  == SumX(timestamp_array, timestamp_count)
    IN  [ duration  |-> (2 * timestamp_count * sum_xt) \div sum_t2,
          timestamp |-> first_timestamp + sum_x \div timestamp_count
                            - ((timestamp_count + 1) * sum_xt) \div sum_t2 ]

\* round(duration * TIMESTAMP_IIR + last_duration * (1 - TIMESTAMP_IIR)):
\* the values the floating point sum can round to (both neighbours when the
\* exact sum lies half way).
last_duration_iir(duration, last_duration) ==
    LET tenths == duration + 9 * last_duration
    IN  IF tenths % 10 = 5
        THEN { tenths \div 10, tenths \div 10 + 1 }
        ELSE { (tenths + 5) \div 10 }

(***************************************************************************)
(* Interlocked access.                                                     *)
(***************************************************************************)
\* A variant of the loop of binary_search that moves high on an equal
\* timestamp.
RECURSIVE binary_search_loop_equal_high(_, _, _, _, _)
binary_search_loop_equal_high(timestamp, low, high, iterations, reads) ==
    LET N == header.major_block_count
        mid == IF low < high
               THEN (low + high) \div 2
               ELSE ((low + high + N) \div 2) % N
    IN  IF (low + 1) % N = high \/ iterations > N
        THEN [low |-> low, high |-> high,
              iterations |-> iterations, reads |-> reads]
        ELSE IF timestamp <= data_index[mid].timestamp
        THEN binary_search_loop_equal_high(
                timestamp, low, mid, iterations + 1, reads \cup {mid})
        ELSE binary_search_loop_equal_high(
                timestamp, mid, high, iterations + 1, reads \cup {mid})

\* A variant of the loop of binary_search that takes the middle without
\* regard to the wrap of the range over the end of the index.
RECURSIVE binary_search_loop_no_wrap(_, _, _, _, _)
binary_search_loop_no_wrap(timestamp, low, high, iterations, reads) ==
    LET N == header.major_block_count
        mid == (low + high) \div 2
    IN  IF (low + 1) % N = high \/ iterations > N
        THEN [low |-> low, high |-> high,
              iterations |-> iterations, reads |-> reads]
        ELSE IF timestamp < data_index[mid].timestamp
        THEN binary_search_loop_no_wrap(
                timestamp, low, mid, iterations + 1, reads \cup {mid})
        ELSE binary_search_loop_no_wrap(
                timestamp, mid, high, iterations + 1, reads \cup {mid})

\* The loop of binary_search from the given bounds: the final bounds, the
\* number of iterations and the index entries read.  The recursion is cut
\* after major_block_count + 1 iterations, which a loop that terminates
\* never reaches (it then ends with (low + 1) % N = high).
RECURSIVE binary_search_loop(_, _, _, _, _)
binary_search_loop(timestamp, low, high, iterations, reads) ==
    LET N == header.major_block_count
        mid == IF low < high
               THEN (low + high) \div 2
               ELSE ((low + high + N) \div 2) % N
    IN  IF (low + 1) % N = high \/ iterations > N
        THEN [low |-> low, high |-> high,
              iterations |-> iterations, reads |-> reads]
        ELSE IF timestamp < data_index[mid].timestamp
        THEN binary_search_loop(
                timestamp, low, mid, iterations + 1, reads \cup {mid})
        ELSE binary_search_loop(
                timestamp, mid, high, iterations + 1, reads \cup {mid})

\* A variant of the bounds of binary_search that does not skip the oldest
\* INDEX_SKIP blocks.
binary_search_run_no_skip(timestamp) ==
    LET N == header.major_block_count
        current == header.current_major_block
    IN  binary_search_loop(timestamp, (current + 1) % N, current, 0, {})

binary_search_run(timestamp) ==
    LET N == header.major_block_count
        current == header.current_major_block
    IN  binary_search_loop(
            timestamp, (current + 1 + INDEX_SKIP) % N, current, 0, {})

\* A variant of binary_search that does not look at the duration.
binary_search_any_duration(timestamp) == binary_search_run(timestamp).high

binary_search(timestamp) ==
    LET run == binary_search_run(timestamp)
    IN  IF data_index[run.low].duration = 0 THEN run.high ELSE run.low

get_earliest_timestamp == data_index[binary_search(1)].timestamp

\* A variant of timestamp_to_block that clamps to the sample after the last.
timestamp_to_block_past_end(timestamp, skip_gap) ==
    LET block == binary_search(timestamp)
        block_start == data_index[block].timestamp
        duration == data_index[block].duration
        block_size == header.major_sample_count
    IN  IF timestamp < block_start
        THEN [block |-> block, offset |-> 0]
        ELSE IF timestamp - block_start < duration
        THEN [block |-> block,
              offset |-> ((timestamp - block_start) * block_size)
                            \div duration]
        ELSE IF skip_gap
        THEN [block |-> (block + 1) % header.major_block_count, offset |-> 0]
        ELSE [block |-> block, offset |-> block_size]

\* timestamp_to_block: the block and offset nearest to timestamp.
timestamp_to_block(timestamp, skip_gap) ==
    LET block == binary_search(timestamp)
        block_start == data_index[block].timestamp
        duration == data_index[block].duration
        block_size == header.major_sample_count
    IN  IF timestamp < block_start
        THEN [block |-> block, offset |-> 0]
        ELSE IF timestamp - block_start < duration
        THEN [block |-> block,
              offset |-> ((timestamp - block_start) * block_size)
                            \div duration]
        ELSE IF skip_gap
        THEN [block |-> (block + 1) % header.major_block_count, offset |-> 0]
        ELSE [block |-> block, offset |-> block_size - 1]

\* A variant of compute_samples that counts the blocks without regard to
\* the wrap of the archive.
compute_samples_no_wrap(block, offset) ==
    LET current == header.current_major_block
    IN  (IF current >= block THEN current - block ELSE block - current)
            * header.major_sample_count - offset

compute_samples(block, offset) ==
    LET current == header.current_major_block
        N == header.major_block_count
        block_count == IF current >= block
                       THEN current - block
                       ELSE N - block + current
    IN  block_count * header.major_sample_count - offset

timestamp_to_start(timestamp, all_data) ==
    LET at == timestamp_to_block(timestamp, TRUE)
    IN  IF at.block = header.current_major_block
        THEN [ok |-> FALSE, error |-> "Start time too late",
              block |-> at.block, offset |-> at.offset]
        ELSE IF ~(all_data \/ data_index[at.block].timestamp <= timestamp)
        THEN [ok |-> FALSE, error |-> "Start time in data gap",
              block |-> at.block, offset |-> at.offset]
        ELSE [ok |-> TRUE, error |-> "",
              block |-> at.block, offset |-> at.offset,
              samples_available |-> compute_samples(at.block, at.offset)]

\* A variant of timestamp_to_end that refuses a timestamp at the very end
\* of the block.
timestamp_to_end_strict(timestamp, all_data) ==
    LET at == timestamp_to_block(timestamp, FALSE)
        end_timestamp ==
            data_index[at.block].timestamp + data_index[at.block].duration
    IN  IF all_data \/ timestamp < end_timestamp
        THEN [ok |-> TRUE, error |-> "",
              block |-> at.block, offset |-> at.offset]
        ELSE [ok |-> FALSE, error |-> "End timestamp too late",
              block |-> at.block, offset |-> at.offset]

timestamp_to_end(timestamp, all_data) ==
    LET at == timestamp_to_block(timestamp, FALSE)
        end_timestamp ==
            data_index[at.block].timestamp + data_index[at.block].duration
    IN  IF all_data \/ timestamp <= end_timestamp
        THEN [ok |-> TRUE, error |-> "",
              block |-> at.block, offset |-> at.offset]
        ELSE [ok |-> FALSE, error |-> "End timestamp too late",
              block |-> at.block, offset |-> at.offset]

\* A variant of the loop of find_gap that takes a step of exactly
\* MAX_DELTA_T for a gap.
RECURSIVE find_gap_loop_closed(_, _, _, _, _)
find_gap_loop_closed(check_id0, start, blocks, timestamp, id_zero) ==
    IF blocks > 1
    THEN LET next == IF start + 1 = header.major_block_count
                     THEN 0 ELSE start + 1
             ix == data_index[next]
             delta_t == ix.timestamp - timestamp
         IN  IF \/ check_id0 /\ ix.id_zero # id_zero
                \/ delta_t <= -MAX_DELTA_T
                \/ MAX_DELTA_T <= delta_t
             THEN [result |-> TRUE, start |-> next, blocks |-> blocks - 1]
             ELSE find_gap_loop_closed(
                     check_id0, next, blocks - 1,
                     ix.timestamp + ix.duration,
                     Add32(ix.id_zero, header.major_sample_count))
    ELSE [result |-> FALSE, start |-> start, blocks |-> blocks]

\* The loop of find_gap: timestamp and id_zero are those expected of the
\* block after block start; the result with *start and *blocks as the
\* loop leaves them.
RECURSIVE find_gap_loop(_, _, _, _, _)
find_gap_loop(check_id0, start, blocks, timestamp, id_zero) ==
    IF blocks > 1
    THEN LET next == IF start + 1 = header.major_block_count
                     THEN 0 ELSE start + 1
             ix == data_index[next]
             delta_t == ix.timestamp - timestamp
         IN  IF \/ check_id0 /\ ix.id_zero # id_zero
                \/ delta_t < -MAX_DELTA_T
                \/ MAX_DELTA_T < delta_t
             THEN [result |-> TRUE, start |-> next, blocks |-> blocks - 1]
             ELSE find_gap_loop(
                     check_id0, next, blocks - 1,
                     ix.timestamp + ix.duration,
                     Add32(ix.id_zero, header.major_sample_count))
    ELSE [result |-> FALSE, start |-> start, blocks |-> blocks]

find_gap(check_id0, start, blocks) ==
    find_gap_loop(
        check_id0, start, blocks,
        data_index[start].timestamp + data_index[start].duration,
        Add32(data_index[start].id_zero, header.major_sample_count))


(***************************************************************************)
(* Locking (LOCK and UNLOCK of transform_lock).                            *)
(***************************************************************************)
\* A lock that does not exclude: the variant against which the interlock
\* properties are tested.
LOCK_without_exclusion(thread) == transform_lock' = thread

LOCK(thread) == transform_lock = Free /\ transform_lock' = thread
UNLOCK(thread) == transform_lock' = Free

(***************************************************************************)
(* Initial state of the transform: initialise_transform on a freshly       *)
(* prepared archive (index and DD area zeroed, buffers not yet written).   *)
(***************************************************************************)
Unwritten == [unwritten |-> TRUE]
ZeroEntry == [x |-> 0, y |-> 0]
ZeroSlot ==
    [min |-> ZeroEntry, max |-> ZeroEntry, mean |-> ZeroEntry,
     std |-> ZeroEntry]
NoQuery == [op |-> "none"]
NothingSeen == [none |-> TRUE]

EmptyBuffer(hdr) ==
    [ fa |-> [w \in 0..(Cardinality(hdr.archive_mask) - 1) |->
                [k \in 0..(hdr.major_sample_count - 1) |-> Unwritten]],
      d  |-> [w \in 0..(Cardinality(hdr.archive_mask) - 1) |->
                [k \in 0..(Shr(hdr.major_sample_count,
                               hdr.first_decimation_log2) - 1) |->
                    Unwritten]] ]

initialise_transform(setup) ==
    /\ header = setup.hdr
    /\ data_index = setup.index
    /\ dd_area =
          [i \in 0..(Cardinality(setup.hdr.archive_mask)
                        * setup.hdr.dd_total_count - 1) |-> ZeroSlot]
    /\ input_frame_count = setup.hdr.input_block_size \div FA_FRAME_SIZE
    \* initialise_double_decimation
    /\ double_accumulators =
          [w \in 0..(Cardinality(setup.hdr.archive_mask) - 1) |->
              initialise_accum]
    /\ dd_offset =
          setup.hdr.current_major_block * setup.hdr.dd_sample_count
    \* initialise_io_buffer
    /\ buffers = [b \in 0..1 |-> EmptyBuffer(setup.hdr)]
    /\ current_buffer = 0
    /\ fa_offset = 0
    /\ d_offset = 0
    \* initialise_index
    /\ timestamp_array =
          [i \in 0..(setup.hdr.major_sample_count
                        \div (setup.hdr.input_block_size \div FA_FRAME_SIZE)
                        - 1) |-> 0]
    /\ timestamp_index = 0
    /\ first_timestamp = 0
    /\ transform_lock = Free
    /\ scheduled = << >>
    /\ t_pc = "idle"
    /\ r_pc = "idle"
    /\ r_query = NoQuery
    /\ r_seen = NothingSeen
    /\ r_result = NothingSeen
    /\ now = StartTime
    /\ frame_counter = setup.counter
    /\ calls = 0
    /\ run_blocks = 0
    /\ recent = << >>
    /\ gap_seen = FALSE
    /\ last_event = "none"

TransformInit == \E setup \in Setups : initialise_transform(setup)


(***************************************************************************)
(* process_block.                                                          *)
(***************************************************************************)
\* transpose_block: the FA area of the current buffer after the block's
\* archived columns are copied to fa_block(written).
transpose_block(block) ==
    [w \in DOMAIN buffers[current_buffer].fa |->
        [k \in DOMAIN buffers[current_buffer].fa[w] |->
            IF fa_offset <= k /\ k < fa_offset + input_frame_count
            THEN block[k - fa_offset + 1][ArchivedId(header.archive_mask, w)]
            ELSE buffers[current_buffer].fa[w][k]]]

\* decimate_block: the decimated area of the current buffer.
decimate_block(block) ==
    [w \in DOMAIN buffers[current_buffer].d |->
        [k \in DOMAIN buffers[current_buffer].d[w] |->
            IF d_offset <= k /\ k < d_offset + input_decimation_count
            THEN compute_result(
                    decimate_column_one(
                        block, ArchivedId(header.archive_mask, w),
                        k - d_offset, header.first_decimation_log2),
                    header.first_decimation_log2)
            ELSE buffers[current_buffer].d[w][k]]]

\* decimate_block: the double accumulators after the block.
decimate_block_accums(block) ==
    [w \in DOMAIN double_accumulators |->
        decimate_column_accum(
            block, ArchivedId(header.archive_mask, w),
            double_accumulators[w], input_decimation_count)]

\* A variant of advance_block that reports the block full one input block
\* late.
advance_block_late(new_fa_offset) == new_fa_offset > header.major_sample_count

\* advance_block: true iff the block is now full.
advance_block(new_fa_offset) == new_fa_offset >= header.major_sample_count

\* A variant of double_decimate_block that shifts by the first decimation
\* only.
double_decimate_block_first_shift(accums) ==
    [i \in DOMAIN dd_area |->
        IF \E w \in DOMAIN accums : i = dd_offset + w * header.dd_total_count
        THEN compute_result(
                accums[CHOOSE w \in DOMAIN accums :
                            i = dd_offset + w * header.dd_total_count],
                header.first_decimation_log2)
        ELSE dd_area[i]]

\* A variant of double_decimate_block that writes the slots that follow the
\* cursor.
double_decimate_block_ahead(accums) ==
    LET next == (dd_offset + 1) % header.dd_total_count
    IN  [i \in DOMAIN dd_area |->
            IF \E w \in DOMAIN accums : i = next + w * header.dd_total_count
            THEN compute_result(
                    accums[CHOOSE w \in DOMAIN accums :
                                i = next + w * header.dd_total_count],
                    header.first_decimation_log2
                        + header.second_decimation_log2)
            ELSE dd_area[i]]

\* double_decimate_block: the DD area after the accumulators are written.
double_decimate_block(accums) ==
    [i \in DOMAIN dd_area |->
        IF \E w \in DOMAIN accums : i = dd_offset + w * header.dd_total_count
        THEN compute_result(
                accums[CHOOSE w \in DOMAIN accums :
                            i = dd_offset + w * header.dd_total_count],
                header.first_decimation_log2 + header.second_decimation_log2)
        ELSE dd_area[i]]

\* A variant of the advance of dd_offset that does not wrap.
double_decimate_offset_no_wrap == dd_offset + 1

\* double_decimate_block: dd_offset after the slots are written.
double_decimate_offset == (dd_offset + 1) % header.dd_total_count

\* write_major_block: offset of the current major block on disk.
write_major_block_offset ==
    header.major_data_start
        + header.current_major_block * header.major_block_size

\* A variant of index_minor_block that records the id 0 field of every
\* minor block.
index_minor_block_every(block, timestamp) ==
    LET first == IF timestamp_index = 0 THEN timestamp ELSE first_timestamp
    IN  /\ first_timestamp' = first
        /\ data_index' =
              [data_index EXCEPT
                  ![header.current_major_block].id_zero = block[1][0].x]
        /\ timestamp_array' =
              [timestamp_array EXCEPT ![timestamp_index] = timestamp - first]
        /\ timestamp_index' = timestamp_index + 1

\* index_minor_block: adds a minor block to the timestamp array; the
\* difference of the timestamps is stored as an int.
index_minor_block(block, timestamp) ==
    LET first == IF timestamp_index = 0 THEN timestamp ELSE first_timestamp
    IN  /\ first_timestamp' = first
        /\ data_index' =
              IF timestamp_index = 0
              THEN [data_index EXCEPT
                      ![header.current_major_block].id_zero = block[1][0].x]
              ELSE data_index
        /\ timestamp_array' =
              [timestamp_array EXCEPT ![timestamp_index] = timestamp - first]
        /\ timestamp_index' = timestamp_index + 1

\* reset_block: called if the block is to be discarded.
reset_block ==
    /\ fa_offset' = 0
    /\ d_offset' = 0

\* A variant of reset_index that keeps the timestamps collected so far.
reset_index_keep == timestamp_index' = timestamp_index

\* reset_index: discard work so far.
reset_index == timestamp_index' = 0

\* A variant of reset_double_decimation that leaves the cursor where it is.
reset_double_decimation_stay ==
    /\ dd_offset' = dd_offset
    /\ double_accumulators' =
          [w \in DOMAIN double_accumulators |-> initialise_accum]

\* A variant of reset_double_decimation that keeps the accumulators.
reset_double_decimation_keep ==
    /\ dd_offset' = header.current_major_block * header.dd_sample_count
    /\ double_accumulators' = double_accumulators

reset_double_decimation ==
    /\ dd_offset' = header.current_major_block * header.dd_sample_count
    /\ double_accumulators' =
          [w \in DOMAIN double_accumulators |-> initialise_accum]

\* The part of process_block for a data block up to the test of must_write.
ProcessData(in) ==
    LET block == MakeBlock(frame_counter, in.s, input_frame_count)
        timestamp == now + in.dt
        accums == decimate_block_accums(block)
        new_fa_offset == fa_offset + input_frame_count
        must_write == advance_block(new_fa_offset)
        decimation ==
            2 ^ (header.first_decimation_log2 + header.second_decimation_log2)
    IN  /\ t_pc = "idle"
        /\ calls < MaxCalls
        /\ index_minor_block(block, timestamp)
        \* transpose_block, decimate_block
        /\ buffers' =
              [buffers EXCEPT ![current_buffer] =
                  [fa |-> transpose_block(block), d |-> decimate_block(block)]]
        \* advance_block
        /\ fa_offset' = new_fa_offset
        /\ d_offset' = d_offset + input_decimation_count
        /\ IF new_fa_offset % decimation = 0
           THEN /\ dd_area' = double_decimate_block(accums)
                /\ double_accumulators' =
                      [w \in DOMAIN accums |-> initialise_accum]
                /\ dd_offset' = double_decimate_offset
           ELSE /\ dd_area' = dd_area
                /\ double_accumulators' = accums
                /\ dd_offset' = dd_offset
        /\ t_pc' = IF must_write THEN "lock" ELSE "idle"
        /\ now' = timestamp
        /\ frame_counter' = Add32(frame_counter, input_frame_count)
        /\ calls' = calls + 1
        /\ run_blocks' = run_blocks + 1
        /\ recent' = Append(recent, block)
        /\ last_event' = "data"
        /\ UNCHANGED << header, current_buffer, input_frame_count,
                        transform_lock, scheduled, gap_seen,
                        r_pc, r_query, r_seen, r_result >>

\* LOCK(transform_lock) in process_block.
ProcessLock ==
    /\ t_pc = "lock"
    /\ LOCK(Transform)
    /\ t_pc' = "write"
    /\ UNCHANGED << header, data_index, dd_area, buffers, current_buffer,
                    fa_offset, d_offset, double_accumulators, dd_offset,
                    first_timestamp, timestamp_array, timestamp_index,
                    input_frame_count, scheduled, r_pc, r_query, r_seen,
                    r_result, now, frame_counter, calls, run_blocks, recent,
                    gap_seen, last_event >>

\* write_major_block.
write_major_block ==
    /\ t_pc = "write"
    /\ scheduled' =
          Append(scheduled,
                 [offset |-> write_major_block_offset,
                  buffer |-> current_buffer,
                  data   |-> buffers[current_buffer],
                  length |-> header.major_block_size])
    /\ current_buffer' = 1 - current_buffer
    /\ reset_block
    /\ t_pc' = "index"
    /\ UNCHANGED << header, data_index, dd_area, buffers,
                    double_accumulators, dd_offset,
                    first_timestamp, timestamp_array, timestamp_index,
                    input_frame_count, transform_lock, r_pc, r_query, r_seen,
                    r_result, now, frame_counter, calls, run_blocks, recent,
                    gap_seen, last_event >>

\* What the two divisions by sum_t2 in advance_index come to.  With
\* sum_t2 = 0 the division is undefined: the process is killed by the
\* arithmetic trap, or the divisions yield a value (0 where the library
\* routine returns) and advance_index carries on.
advance_index_outcomes ==
    IF sum_t2 = 0
    THEN { [trap |-> TRUE, duration |-> 0, timestamp |-> 0],
           [trap |-> FALSE, duration |-> 0,
            timestamp |->
                first_timestamp
                    + SumX(timestamp_array, timestamp_count)
                          \div timestamp_count] }
    ELSE { [trap |-> FALSE, duration |-> advance_index_entry.duration,
            timestamp |-> advance_index_entry.timestamp] }

\* advance_index: complete the index entry of the current block.
advance_index_write ==
    /\ t_pc = "index"
    /\ \E entry \in advance_index_outcomes :
          IF entry.trap
          THEN /\ t_pc' = "crashed"
               /\ UNCHANGED << header, data_index >>
          ELSE /\ data_index' =
                     [data_index EXCEPT
                         ![header.current_major_block].duration =
                             entry.duration,
                         ![header.current_major_block].timestamp =
                             entry.timestamp]
               /\ \E last \in last_duration_iir(
                                   entry.duration, header.last_duration) :
                     header' = [header EXCEPT !.last_duration = last]
               /\ t_pc' = "advance"
    /\ UNCHANGED << dd_area, buffers, current_buffer, fa_offset, d_offset,
                    double_accumulators, dd_offset,
                    first_timestamp, timestamp_array, timestamp_index,
                    input_frame_count, transform_lock, scheduled,
                    r_pc, r_query, r_seen,
                    r_result, now, frame_counter, calls, run_blocks, recent,
                    gap_seen, last_event >>

\* advance_index: advance the block index and reset the timestamp index.
advance_index_advance ==
    /\ t_pc = "advance"
    /\ header' =
          [header EXCEPT !.current_major_block =
              (header.current_major_block + 1) % header.major_block_count]
    /\ timestamp_index' = 0
    /\ t_pc' = "unlock"
    /\ run_blocks' = 0
    /\ recent' = << >>
    /\ gap_seen' = FALSE
    /\ UNCHANGED << data_index, dd_area, buffers, current_buffer, fa_offset,
                    d_offset, double_accumulators, dd_offset,
                    first_timestamp, timestamp_array,
                    input_frame_count, transform_lock, scheduled,
                    r_pc, r_query, r_seen,
                    r_result, now, frame_counter, calls, last_event >>

\* UNLOCK(transform_lock) in process_block.
ProcessUnlock ==
    /\ t_pc = "unlock"
    /\ UNLOCK(Transform)
    /\ t_pc' = "idle"
    /\ UNCHANGED << header, data_index, dd_area, buffers, current_buffer,
                    fa_offset, d_offset, double_accumulators, dd_offset,
                    first_timestamp, timestamp_array, timestamp_index,
                    input_frame_count, scheduled, r_pc, r_query, r_seen,
                    r_result, now, frame_counter, calls, run_blocks, recent,
                    gap_seen, last_event >>

\* process_block(NULL, _): a gap discards all the work done so far.
ProcessGap(gap) ==
    /\ t_pc = "idle"
    /\ calls < MaxCalls
    /\ reset_block
    /\ reset_index
    /\ reset_double_decimation
    /\ now' = now + gap.dt
    /\ frame_counter' = Add32(frame_counter, gap.lost)
    /\ calls' = calls + 1
    /\ run_blocks' = 0
    /\ recent' = << >>
    /\ gap_seen' = TRUE
    /\ last_event' = "gap"
    /\ UNCHANGED << header, data_index, dd_area, buffers, current_buffer,
                    first_timestamp, timestamp_array, input_frame_count,
                    transform_lock, scheduled, t_pc,
                    r_pc, r_query, r_seen, r_result >>


(***************************************************************************)
(* A reader thread: one of the interlocked lookups, which hold             *)
(* transform_lock from LOCK to UNLOCK.                                     *)
(***************************************************************************)
\* The requests the reader makes.
ReaderQueries ==
    { [op |-> "get_earliest_timestamp", timestamp |-> 1, all_data |-> FALSE],
      [op |-> "timestamp_to_start", timestamp |-> StartTime + 15,
       all_data |-> FALSE],
      [op |-> "timestamp_to_end", timestamp |-> StartTime + 30,
       all_data |-> TRUE] }

\* What a lookup depends on: the current block and the index entries.
IndexView ==
    [ current_major_block |-> header.current_major_block,
      index |-> [i \in DOMAIN data_index |->
                    [timestamp |-> data_index[i].timestamp,
                     duration  |-> data_index[i].duration]] ]

ReaderLock(query) ==
    /\ r_pc = "idle"
    /\ LOCK(Reader)
    /\ r_pc' = "locked"
    /\ r_query' = query
    /\ r_seen' = IndexView
    /\ UNCHANGED << header, data_index, dd_area, buffers, current_buffer,
                    fa_offset, d_offset, double_accumulators, dd_offset,
                    first_timestamp, timestamp_array, timestamp_index,
                    input_frame_count, scheduled, t_pc, r_result,
                    now, frame_counter, calls, run_blocks, recent,
                    gap_seen, last_event >>

ReaderLookup ==
    /\ r_pc = "locked"
    /\ r_result' =
          IF r_query.op = "get_earliest_timestamp"
          THEN [timestamp |-> get_earliest_timestamp]
          ELSE IF r_query.op = "timestamp_to_start"
          THEN timestamp_to_start(r_query.timestamp, r_query.all_data)
          ELSE timestamp_to_end(r_query.timestamp, r_query.all_data)
    /\ r_pc' = "found"
    /\ UNCHANGED << header, data_index, dd_area, buffers, current_buffer,
                    fa_offset, d_offset, double_accumulators, dd_offset,
                    first_timestamp, timestamp_array, timestamp_index,
                    input_frame_count, transform_lock, scheduled, t_pc,
                    r_query, r_seen,
                    now, frame_counter, calls, run_blocks, recent,
                    gap_seen, last_event >>

ReaderUnlock ==
    /\ r_pc = "found"
    /\ UNLOCK(Reader)
    /\ r_pc' = "idle"
    /\ r_query' = NoQuery
    /\ r_seen' = NothingSeen
    /\ r_result' = NothingSeen
    /\ UNCHANGED << header, data_index, dd_area, buffers, current_buffer,
                    fa_offset, d_offset, double_accumulators, dd_offset,
                    first_timestamp, timestamp_array, timestamp_index,
                    input_frame_count, scheduled, t_pc,
                    now, frame_counter, calls, run_blocks, recent,
                    gap_seen, last_event >>


(***************************************************************************)
(* State of the disk writer (disk_writer.c).                               *)
(***************************************************************************)
VARIABLES
    disk_header,        \* the static header: [h: ..., blocks: ...]
    header_mmap,        \* the header as mapped from the archive file
    write_offset,       \* where we are in the archive
    old_write_offset,
    max_backlog,
    writer_running,
    reader_stopped,     \* stop_reader has been called on the writer's reader
    file_position,      \* file position of disk_fd
    disk_data,          \* data area: the segment that last wrote each block
    w_pc,               \* position of the writer thread
    w_block,            \* the block the writer thread holds (or NULL)
    w_archiving,        \* argument of the get_valid_read_block in progress
    m_pc,               \* position of the main thread
    clock,              \* wall clock, seconds
    segment_of,         \* which segment each directory entry records
    segments,           \* number of segments started so far
    blocks_written,     \* number of blocks written so far
    runs                \* number of times the archiver was started

wvars == << disk_header, header_mmap, write_offset, old_write_offset,
            max_backlog, writer_running, reader_stopped, file_position,
            disk_data, w_pc, w_block, w_archiving, m_pc, clock, segment_of,
            segments, blocks_written, runs >>

\* Number of segments the block directory holds.
MAX_HEADER_BLOCKS == 2
\* Size of the data area in blocks, and the size of a block.
DataBlocks == 3
fa_block_size == 2
\* Blocks written, seconds elapsed and archiver runs explored.
MaxWrites == 4
MaxClock == 2
MaxRuns == 2
\* The backlogs the ring buffer reports.
Backlogs == {1}

NULL == "NULL"
DataBlock == "block"

\* The header of a freshly prepared archive.
PreparedHeader ==
    [ h |-> [ block_count |-> 0, disk_status |-> 0, write_backlog |-> 0,
              write_buffer |-> 0,
              data_start |-> 64, data_size |-> DataBlocks * fa_block_size ],
      blocks |-> [ i \in 0..(MAX_HEADER_BLOCKS - 1) |->
                     [ start_sec |-> 0, stop_sec |-> 0,
                       start_offset |-> 0, stop_offset |-> 0 ] ] ]

data_size == disk_header.h.data_size
data_start == disk_header.h.data_start

(***************************************************************************)
(* Block recording.                                                        *)
(***************************************************************************)
\* A variant of expired that tests the interval [old_write_offset,
\* write_offset).
expired_closed_open(offset, wo, old) ==
    IF wo >= old
    THEN old <= offset /\ offset < wo
    ELSE offset < wo \/ old <= offset

\* expired(offset) with the given write_offset and old_write_offset.
expired(offset, wo, old) ==
    IF wo >= old
    THEN old < offset /\ offset <= wo
    ELSE offset <= wo \/ old < offset

\* The loop of expire_archive_blocks: the block_count it leaves.
RECURSIVE expire_count(_, _, _, _)
expire_count(blocks, count, wo, old) ==
    IF count > 1 /\ expired(blocks[count - 1].stop_offset, wo, old)
    THEN expire_count(blocks, count - 1, wo, old)
    ELSE count

\* expire_archive_blocks: the header it leaves (old_write_offset is set by
\* the caller's action).
expire_archive_blocks(hdr, wo, old) ==
    LET count == expire_count(hdr.blocks, hdr.h.block_count, wo, old)
        old_start == hdr.blocks[count - 1].start_offset
    IN  [ h |-> [hdr.h EXCEPT !.block_count = count],
          blocks |->
            IF expired(old_start, wo, old) \/ old_start = old
            THEN [hdr.blocks EXCEPT ![count - 1].start_offset = wo]
            ELSE hdr.blocks ]

\* get_now: (unsigned) ts.tv_sec, the low 32 bits of the seconds.
get_now(seconds) ==
    (seconds % 65536) + 65536 * ((seconds \div 65536) % 65536)

\* A variant of start_archive_block that records the new block over the
\* previous one.
start_archive_block_overwrite(hdr, wo, seconds) ==
    [ h |-> [hdr.h EXCEPT
                !.block_count =
                    IF hdr.h.block_count + 1 > MAX_HEADER_BLOCKS
                    THEN MAX_HEADER_BLOCKS
                    ELSE hdr.h.block_count + 1,
                !.disk_status = 1],
      blocks |->
        [ hdr.blocks EXCEPT
            ![0] = [ start_sec |-> get_now(seconds),
                     stop_sec |-> get_now(seconds),
                     start_offset |-> wo, stop_offset |-> -1 ] ] ]

\* A variant of start_archive_block that does not limit block_count.
start_archive_block_uncapped(hdr, wo, seconds) ==
    [ h |-> [hdr.h EXCEPT
                !.block_count = hdr.h.block_count + 1,
                !.disk_status = 1],
      blocks |->
        [ i \in 0..(MAX_HEADER_BLOCKS - 1) |->
            IF i = 0
            THEN [ start_sec |-> get_now(seconds),
                   stop_sec |-> get_now(seconds),
                   start_offset |-> wo, stop_offset |-> -1 ]
            ELSE hdr.blocks[i - 1] ] ]

\* start_archive_block: the header after a new block is recorded.
start_archive_block(hdr, wo, seconds) ==
    [ h |-> [hdr.h EXCEPT
                !.block_count =
                    IF hdr.h.block_count + 1 > MAX_HEADER_BLOCKS
                    THEN MAX_HEADER_BLOCKS
                    ELSE hdr.h.block_count + 1,
                !.disk_status = 1],
      blocks |->
        [ i \in 0..(MAX_HEADER_BLOCKS - 1) |->
            IF i = 0
            THEN [ start_sec |-> get_now(seconds),
                   stop_sec |-> get_now(seconds),
                   start_offset |-> wo, stop_offset |-> -1 ]
            ELSE hdr.blocks[i - 1] ] ]

update_backlog(backlog) == IF backlog > max_backlog THEN backlog ELSE max_backlog

\* update_header: true iff the header is written out.
update_header_writes(hdr, force_write, seconds) ==
    force_write \/ get_now(seconds) # hdr.blocks[0].stop_sec

\* A variant of update_header that leaves stop_offset as it was.
update_header_stale_stop(hdr, force_write, wo, old, backlog, seconds) ==
    LET exp == expire_archive_blocks(hdr, wo, old)
    IN  IF update_header_writes(exp, force_write, seconds)
        THEN [ h |-> [exp.h EXCEPT !.write_backlog = backlog],
               blocks |-> [exp.blocks EXCEPT
                              ![0].stop_sec = get_now(seconds)] ]
        ELSE exp

\* update_header: the header it leaves, after expire_archive_blocks.
update_header(hdr, force_write, wo, old, backlog, seconds) ==
    LET exp == expire_archive_blocks(hdr, wo, old)
    IN  IF update_header_writes(exp, force_write, seconds)
        THEN [ h |-> [exp.h EXCEPT !.write_backlog = backlog],
               blocks |-> [exp.blocks EXCEPT
                              ![0].stop_sec = get_now(seconds),
                              ![0].stop_offset = wo] ]
        ELSE exp


(***************************************************************************)
(* The ring buffer as the disk writer's reader sees it: get_read_block     *)
(* returns a data block or NULL (a gap, or the reader stopped), with the   *)
(* backlog.                                                                *)
(***************************************************************************)
get_read_block ==
    IF reader_stopped
    THEN { [block |-> NULL, backlog |-> 0] }
    ELSE { [block |-> b, backlog |-> n] :
              b \in {DataBlock, NULL}, n \in Backlogs }

\* The wall clock as read by a call of get_now: it never goes back.
ClockReadings == { t \in {clock, clock + 1} : t <= MaxClock }

\* The block of the data area at the given file position.
DataSlot(position) == (position - data_start) \div fa_block_size

\* The directory entries' segments after start_archive_block.
PushSegment ==
    [ i \in 0..(MAX_HEADER_BLOCKS - 1) |->
        IF i = 0 THEN segments + 1 ELSE segment_of[i - 1] ]

(***************************************************************************)
(* Disk writer initialisation and startup.                                 *)
(***************************************************************************)
\* process_header: the static state read from the mapped header.
process_header(mapped, write_buffer) ==
    /\ disk_header = [mapped EXCEPT !.h.write_buffer = write_buffer]
    /\ write_offset =
          IF mapped.h.block_count > 0
          THEN mapped.blocks[0].stop_offset
          ELSE 0
    /\ old_write_offset =
          IF mapped.h.block_count > 0
          THEN mapped.blocks[0].stop_offset
          ELSE 0

\* initialise_disk_writer on a freshly prepared archive.
WriterInit ==
    /\ header_mmap = PreparedHeader
    /\ process_header(PreparedHeader, 0)
    /\ max_backlog = 0
    /\ writer_running = TRUE
    /\ reader_stopped = FALSE
    /\ file_position = 0
    /\ disk_data = [i \in 0..(DataBlocks - 1) |-> 0]
    /\ w_pc = "get"
    /\ w_block = NULL
    /\ w_archiving = FALSE
    /\ m_pc = "running"
    /\ clock = 1
    /\ segment_of = [i \in 0..(MAX_HEADER_BLOCKS - 1) |-> 0]
    /\ segments = 0
    /\ blocks_written = 0
    /\ runs = 1

(***************************************************************************)
(* Disk writing thread.                                                    *)
(***************************************************************************)
\* get_valid_read_block: the first get_read_block; with no data to read
\* and archiving the header is brought up to date.
GetValidReadBlock ==
    /\ w_pc = "get"
    /\ \E got \in get_read_block, seconds \in ClockReadings :
          IF got.block # NULL
          THEN /\ w_block' = got.block
               /\ max_backlog' = update_backlog(got.backlog)
               /\ w_pc' = IF w_archiving THEN "write" ELSE "start"
               /\ UNCHANGED << disk_header, header_mmap, old_write_offset,
                               clock >>
          ELSE IF w_archiving
          THEN /\ disk_header' =
                     update_header(disk_header, TRUE, write_offset,
                         old_write_offset, update_backlog(got.backlog),
                         seconds)
               /\ header_mmap' = disk_header'
               /\ old_write_offset' = write_offset
               /\ max_backlog' = 0
               /\ clock' = seconds
               /\ w_block' = NULL
               /\ w_pc' = "wait"
          ELSE /\ w_block' = NULL
               /\ max_backlog' = update_backlog(got.backlog)
               /\ w_pc' = "wait"
               /\ UNCHANGED << disk_header, header_mmap, old_write_offset,
                               clock >>
    /\ UNCHANGED << write_offset, writer_running, reader_stopped,
                    file_position, disk_data, w_archiving, m_pc, segment_of,
                    segments, blocks_written, runs >>

\* get_valid_read_block: get_read_block in the loop that waits for a valid
\* block.
WaitReadBlock ==
    /\ w_pc = "wait"
    /\ \E got \in get_read_block :
          /\ w_block' = got.block
          /\ max_backlog' = update_backlog(got.backlog)
    /\ w_pc' = "wait_check"
    /\ UNCHANGED << disk_header, header_mmap, write_offset, old_write_offset,
                    writer_running, reader_stopped, file_position, disk_data,
                    w_archiving, m_pc, clock, segment_of, segments,
                    blocks_written, runs >>

\* get_valid_read_block: while (writer_running && block == NULL).
WaitCheck ==
    /\ w_pc = "wait_check"
    /\ w_pc' = IF writer_running /\ w_block = NULL THEN "wait" ELSE "wait_exit"
    /\ UNCHANGED << disk_header, header_mmap, write_offset, old_write_offset,
                    max_backlog, writer_running, reader_stopped,
                    file_position, disk_data, w_block, w_archiving, m_pc,
                    clock, segment_of, segments, blocks_written, runs >>

\* get_valid_read_block: if (writer_running && archiving)
\* start_archive_block(); return block.
WaitExit ==
    /\ w_pc = "wait_exit"
    /\ IF writer_running /\ w_archiving
       THEN \E seconds \in ClockReadings :
              /\ disk_header' =
                    start_archive_block(disk_header, write_offset, seconds)
              /\ clock' = seconds
              /\ segment_of' = PushSegment
              /\ segments' = segments + 1
       ELSE UNCHANGED << disk_header, clock, segment_of, segments >>
    /\ w_pc' = IF w_archiving THEN "write" ELSE "start"
    /\ UNCHANGED << header_mmap, write_offset, old_write_offset, max_backlog,
                    writer_running, reader_stopped, file_position, disk_data,
                    w_block, w_archiving, m_pc, blocks_written, runs >>

\* writer_thread: start a fresh archive block with the initial block.
WriterStart ==
    /\ w_pc = "start"
    /\ \E seconds \in ClockReadings :
          /\ disk_header' =
                start_archive_block(disk_header, write_offset, seconds)
          /\ clock' = seconds
    /\ segment_of' = PushSegment
    /\ segments' = segments + 1
    /\ file_position' = data_start + write_offset
    /\ w_pc' = "write"
    /\ UNCHANGED << header_mmap, write_offset, old_write_offset, max_backlog,
                    writer_running, reader_stopped, disk_data, w_block,
                    w_archiving, m_pc, blocks_written, runs >>

\* A variant of the advance of write_offset that wraps one block late.
next_write_offset_late(offset) ==
    IF offset + fa_block_size > data_size THEN 0 ELSE offset + fa_block_size

\* writer_thread: write_offset after a block is written.
next_write_offset(offset) ==
    IF offset + fa_block_size >= data_size THEN 0 ELSE offset + fa_block_size

\* writer_thread: one turn of the loop up to the next
\* get_valid_read_block, or the end of the thread.
WriterLoop ==
    /\ w_pc = "write"
    /\ IF writer_running
       THEN LET advanced == write_offset + fa_block_size
                wo == next_write_offset(write_offset)
            IN  /\ blocks_written < MaxWrites
                /\ disk_data' =
                      [disk_data EXCEPT ![DataSlot(file_position)] =
                          IF w_block = NULL THEN -1 ELSE segments]
                /\ file_position' =
                      IF advanced >= data_size
                      THEN data_start
                      ELSE file_position + fa_block_size
                /\ write_offset' = wo
                /\ \E seconds \in ClockReadings :
                      /\ disk_header' =
                            update_header(disk_header, FALSE, wo,
                                old_write_offset, max_backlog, seconds)
                      /\ clock' = seconds
                      /\ IF update_header_writes(
                                expire_archive_blocks(
                                    disk_header, wo, old_write_offset),
                                FALSE, seconds)
                         THEN /\ header_mmap' = disk_header'
                              /\ max_backlog' = 0
                         ELSE UNCHANGED << header_mmap, max_backlog >>
                /\ old_write_offset' = wo
                /\ blocks_written' = blocks_written + 1
                /\ w_archiving' = TRUE
                /\ w_pc' = "get"
       ELSE /\ w_pc' = "done"
            /\ UNCHANGED << disk_header, header_mmap, write_offset,
                            old_write_offset, max_backlog, file_position,
                            disk_data, w_archiving, clock, blocks_written >>
    /\ UNCHANGED << writer_running, reader_stopped, w_block, m_pc,
                    segment_of, segments, runs >>

(***************************************************************************)
(* Main thread: terminate_disk_writer, and the next run of the archiver on *)
(* the same archive.                                                       *)
(***************************************************************************)
\* terminate_disk_writer: writer_running = false.
TerminateStop ==
    /\ m_pc = "running"
    /\ writer_running' = FALSE
    /\ m_pc' = "stop_reader"
    /\ UNCHANGED << disk_header, header_mmap, write_offset, old_write_offset,
                    max_backlog, reader_stopped, file_position, disk_data,
                    w_pc, w_block, w_archiving, clock, segment_of, segments,
                    blocks_written, runs >>

\* terminate_disk_writer: stop_reader(reader).
TerminateStopReader ==
    /\ m_pc = "stop_reader"
    /\ reader_stopped' = TRUE
    /\ m_pc' = "join"
    /\ UNCHANGED << disk_header, header_mmap, write_offset, old_write_offset,
                    max_backlog, writer_running, file_position, disk_data,
                    w_pc, w_block, w_archiving, clock, segment_of, segments,
                    blocks_written, runs >>

\* terminate_disk_writer: pthread_join, close_reader and close_header.
TerminateClose ==
    /\ m_pc = "join"
    /\ w_pc = "done"
    /\ \E seconds \in ClockReadings :
          /\ disk_header' =
                update_header([disk_header EXCEPT !.h.disk_status = 0],
                    TRUE, write_offset, old_write_offset, max_backlog,
                    seconds)
          /\ clock' = seconds
    /\ header_mmap' = disk_header'
    /\ old_write_offset' = write_offset
    /\ max_backlog' = 0
    /\ m_pc' = "closed"
    /\ UNCHANGED << write_offset, writer_running, reader_stopped,
                    file_position, disk_data, w_pc, w_block, w_archiving,
                    segment_of, segments, blocks_written, runs >>

\* initialise_disk_writer in the next run of the archiver.
Restart ==
    /\ m_pc = "closed"
    /\ runs < MaxRuns
    /\ reader_stopped' = FALSE
    /\ writer_running' = TRUE
    /\ disk_header' = [header_mmap EXCEPT !.h.write_buffer = 0]
    /\ write_offset' =
          IF header_mmap.h.block_count > 0
          THEN header_mmap.blocks[0].stop_offset
          ELSE 0
    /\ old_write_offset' = write_offset'
    /\ max_backlog' = 0
    /\ file_position' = 0
    /\ w_pc' = "get"
    /\ w_block' = NULL
    /\ w_archiving' = FALSE
    /\ m_pc' = "running"
    /\ runs' = runs + 1
    /\ UNCHANGED << header_mmap, disk_data, clock, segment_of, segments,
                    blocks_written >>

(***************************************************************************)
(* The sniffer thread (sniffer.c): it reads blocks from the sniffer device *)
(* into the write blocks of the ring buffer.                               *)
(***************************************************************************)
VARIABLES
    sn_pc,              \* position of the sniffer thread
    in_gap,             \* only report gap once
    sniffer_ok,         \* result of the last read
    sn_timestamp,       \* the local variable timestamp
    sn_events,          \* the calls made since the last get_write_block
    sn_outcomes,        \* the results of the reads so far
    sn_log,             \* the messages logged so far
    sn_config,          \* the sniffer context and the entry count
    sn_written          \* entries of a frame written by the last extraction

nvars == << sn_pc, in_gap, sniffer_ok, sn_timestamp, sn_events, sn_outcomes,
            sn_log, sn_config, sn_written >>

\* Reads explored, and the timestamps the device delivers.
MaxReads == 4
DeviceTimestamps == {10, 20}
\* What the variable timestamp may hold when the read has not set it.
Indeterminate == DeviceTimestamps \cup {-1}

\* initialise_sniffer_device: a driver with the timestamp ioctl has its
\* entry count set, another is good for 256 entries only.
initialise_sniffer_device(timestamp_ioctl, fa_entry_count) ==
    timestamp_ioctl \/ fa_entry_count = 256

\* The sniffers that initialisation accepts: the device, or the empty
\* sniffer of initialise_empty_sniffer, with the entry count of the archive.
SnifferEntryCounts == {256, 512, 1024}
SnifferConfigs ==
    { config \in [context : {"device"}, timestamp_ioctl : BOOLEAN,
                  fa_entry_count : SnifferEntryCounts] :
        initialise_sniffer_device(config.timestamp_ioctl,
                                  config.fa_entry_count) }
    \cup { [context |-> "empty", timestamp_ioctl |-> FALSE,
            fa_entry_count |-> n] : n \in SnifferEntryCounts }

\* The ESRF corrector extraction on the frames of a block: nibbles[id] is
\* the top nibble of entry id.  It gives whether the assertion on the entry
\* count held, and the entries of a frame written if so.
ESRF_CORRECTOR_COUNT == 14 * 8
PackedIds == 241..248
CorrectorNibbles ==
    { [id \in PackedIds |-> 0], [id \in PackedIds |-> 15],
      [id \in PackedIds |-> id - 241] }
ix_out(id, ix_in) == 2 * ix_in + 14 * (id - 241) + 256
extract_esrf_correctors(fa_entry_count, nibbles) ==
    IF fa_entry_count >= 512
    THEN [ ok |-> TRUE,
           written |->
               256..(256 + ESRF_CORRECTOR_COUNT - 1)
               \cup UNION { { ix_out(id, nibbles[id]),
                              ix_out(id, nibbles[id]) + 1 } :
                            id \in PackedIds } ]
    ELSE [ok |-> FALSE, written |-> {}]

\* The thread of the sniffer config is about to start.
SnifferStart(config) ==
    /\ sn_config = config
    /\ sn_written = {}
    /\ sn_pc = "get"
    /\ in_gap = FALSE
    /\ sniffer_ok = TRUE
    \* no timestamp variable is in scope yet
    /\ sn_timestamp = -1
    /\ sn_events = << >>
    /\ sn_outcomes = << >>
    /\ sn_log = << >>

\* The sniffer of the other stages: the device with 512 entries.
SnifferInit ==
    SnifferStart([context |-> "device", timestamp_ioctl |-> TRUE,
                  fa_entry_count |-> 512])

\* void *buffer = get_write_block(fa_block_buffer).
SnifferGet ==
    /\ sn_pc = "get"
    /\ Len(sn_outcomes) < MaxReads
    /\ sn_events' = << [op |-> "get_write_block"] >>
    \* a new timestamp variable, not initialised
    /\ sn_timestamp' \in Indeterminate
    /\ sn_pc' = "read"
    /\ UNCHANGED << in_gap, sniffer_ok, sn_outcomes, sn_log, sn_config,
                    sn_written >>

\* sniffer_ok = sniffer_context->read(buffer, fa_block_size, &timestamp):
\* a successful read sets the timestamp, a failed one leaves it as it was,
\* and the empty sniffer never reads anything.  Then
\* extract_esrf_correctors(buffer, fa_block_size), on what the buffer holds:
\* the program aborts when its assertion fails.
SnifferRead(ok, stamp, nibbles) ==
    /\ sn_pc = "read"
    /\ ok => sn_config.context = "device"
    /\ sniffer_ok' = ok
    /\ sn_timestamp' = IF ok THEN stamp ELSE sn_timestamp
    /\ sn_events' =
          Append(sn_events,
                 IF ok THEN [op |-> "read", ok |-> TRUE, timestamp |-> stamp]
                 ELSE [op |-> "read", ok |-> FALSE])
    /\ sn_outcomes' = Append(sn_outcomes, ok)
    /\ LET extracted ==
               extract_esrf_correctors(sn_config.fa_entry_count, nibbles)
       IN  /\ sn_written' = extracted.written
           /\ sn_pc' = IF extracted.ok THEN "release" ELSE "aborted"
    /\ UNCHANGED << in_gap, sn_log, sn_config >>

\* release_write_block(fa_block_buffer, !sniffer_ok, timestamp), which
\* reports whether the disk writer has kept up; if not this is logged.
SnifferRelease(kept_up) ==
    /\ sn_pc = "release"
    /\ sn_events' =
          Append(sn_events,
                 [op |-> "release_write_block", gap |-> ~sniffer_ok,
                  timestamp |-> sn_timestamp])
    /\ sn_log' =
          IF kept_up THEN sn_log
          ELSE Append(sn_log,
                  "Disk writer has fallen behind, dropping sniffer data")
    /\ sn_pc' = "log"
    /\ UNCHANGED << in_gap, sniffer_ok, sn_timestamp, sn_outcomes, sn_config,
                    sn_written >>

\* if (sniffer_ok == in_gap): the gap status has changed.
gap_status_changed == sniffer_ok = in_gap

\* Log change in gap status; in_gap = !sniffer_ok; while (sniffer_ok).
SnifferLog(status_ok) ==
    /\ sn_pc = "log"
    \* the empty sniffer has no status
    /\ status_ok => sn_config.context = "device"
    /\ sn_log' =
          IF ~gap_status_changed THEN sn_log
          ELSE IF sniffer_ok
          THEN Append(sn_log, "Block read successfully")
          ELSE IF status_ok
          THEN Append(sn_log, "Unable to read block: status")
          ELSE Append(sn_log, "Unable to read block")
    /\ in_gap' = ~sniffer_ok
    /\ sn_pc' = IF sniffer_ok THEN "get" ELSE "sleep"
    /\ UNCHANGED << sniffer_ok, sn_timestamp, sn_events, sn_outcomes,
                    sn_config, sn_written >>

\* A variant of the pause that goes on to the next read without a reset.
sniffer_after_sleep_no_reset == "get"

\* Where the thread goes on after sleep(1).
sniffer_after_sleep == "reset"

\* sleep(1): pause before retrying.
SnifferSleep ==
    /\ sn_pc = "sleep"
    /\ sn_events' = Append(sn_events, [op |-> "sleep", seconds |-> 1])
    /\ sn_pc' = sniffer_after_sleep
    /\ UNCHANGED << in_gap, sniffer_ok, sn_timestamp, sn_outcomes, sn_log,
                    sn_config, sn_written >>

\* IGNORE(sniffer_context->reset()).
SnifferReset ==
    /\ sn_pc = "reset"
    /\ sn_events' = Append(sn_events, [op |-> "reset"])
    /\ sn_pc' = "get"
    /\ UNCHANGED << in_gap, sniffer_ok, sn_timestamp, sn_outcomes, sn_log,
                    sn_config, sn_written >>

\* terminate_sniffer: pthread_cancel takes effect while the thread is in
\* read or in sleep.
SnifferCancel ==
    /\ sn_pc \in {"read", "sleep"}
    /\ sn_pc' = "cancelled"
    /\ UNCHANGED << in_gap, sniffer_ok, sn_timestamp, sn_events,
                    sn_outcomes, sn_log, sn_config, sn_written >>

(***************************************************************************)
(* Index lookup on an existing archive: the archiver is started on an      *)
(* archive whose header and index were left by earlier runs, and a lookup  *)
(* is made before any new block is processed.                              *)
(***************************************************************************)
VARIABLES
    s_target,           \* the timestamp looked up
    s_result            \* the outcome of the lookup, once called

svars == << s_target, s_result >>

vars == << tvars, wvars, svars, nvars >>

\* Major block counts, timestamps and targets of the lookups.
SearchBlockCounts == {1, 2, 3, 4, 5, 6, 7}
IndexTimestamps == {1, 9}
IndexDuration == 5
SearchTargets == {0, 3, 6, 9, 14, 15}

\* The index of an archive whose block c is current: the major blocks are
\* written in the order of their numbers, so that either every block has
\* been written or those below c have; the timestamps come from the wall
\* clock of their time, which may have been stepped.
WrittenIndex(n, c, full, stamps) ==
    [i \in 0..(n - 1) |->
        IF full \/ i < c
        THEN [timestamp |-> stamps[i], duration |-> IndexDuration,
              id_zero |-> 0]
        ELSE [timestamp |-> 0, duration |-> 0, id_zero |-> 0]]

ExistingArchives ==
    UNION { { [hdr |-> [Geometry(2, 4, 1, 1, n, {0, 2}) EXCEPT
                           !.current_major_block = c],
               index |-> WrittenIndex(n, c, full, stamps),
               counter |-> -3] :
                c \in 0..(n - 1), full \in BOOLEAN,
                stamps \in [0..(n - 1) -> IndexTimestamps] } :
            n \in SearchBlockCounts }

NoLookup ==
    /\ s_target = 0
    /\ s_result = NothingSeen

SearchInit ==
    /\ \E setup \in ExistingArchives : initialise_transform(setup)
    /\ s_target \in SearchTargets
    /\ s_result = NothingSeen

\* A call of binary_search with the lock held, keeping its final bounds.
Search ==
    /\ s_result = NothingSeen
    /\ transform_lock = Free
    /\ s_result' =
          [ index |-> binary_search(s_target),
            run |-> binary_search_run(s_target) ]
    /\ UNCHANGED << s_target, tvars >>

\* A call of timestamp_to_start, which holds the lock from LOCK to UNLOCK.
TimestampToStart(all_data) ==
    /\ s_result = NothingSeen
    /\ transform_lock = Free
    /\ s_result' =
          [ op |-> "timestamp_to_start",
            all_data |-> all_data,
            out |-> timestamp_to_start(s_target, all_data) ]
    /\ UNCHANGED << s_target, tvars >>

\* A call of timestamp_to_end, which holds the lock from LOCK to UNLOCK.
TimestampToEnd(all_data) ==
    /\ s_result = NothingSeen
    /\ transform_lock = Free
    /\ s_result' =
          [ op |-> "timestamp_to_end",
            all_data |-> all_data,
            out |-> timestamp_to_end(s_target, all_data) ]
    /\ UNCHANGED << s_target, tvars >>

(***************************************************************************)
(* find_gap on a full archive: the blocks follow one another in time from  *)
(* the current block round the index, each starting where the one before   *)
(* ended but for a step, and carrying the id 0 of the one before plus      *)
(* major_sample_count but for the frames lost.                             *)
(***************************************************************************)
GapBlockCounts == {3}
TimeSteps == {0, MAX_DELTA_T, MAX_DELTA_T + 1, -MAX_DELTA_T, -MAX_DELTA_T - 1}
FramesLost == {0, 1}
FindGapBlocks == {0, 1, 2, 3, 4}
FirstBlockTime == 10 * MAX_DELTA_T
\* id 0 of the oldest block, just below the wrap of the int32 field.
FirstIdZero == INT32_MAX - 5

\* The entry of the block at position j of the order in time, the steps in
\* time and the frames lost before positions 1 to j being given.
RECURSIVE ChainEntry(_, _, _, _)
ChainEntry(j, msc, steps, lost) ==
    IF j = 0
    THEN [timestamp |-> FirstBlockTime, duration |-> IndexDuration,
          id_zero |-> FirstIdZero]
    ELSE LET before == ChainEntry(j - 1, msc, steps, lost)
         IN  [timestamp |->
                  before.timestamp + before.duration + steps[j],
              duration |-> IndexDuration,
              id_zero |-> Add32(Add32(before.id_zero, msc), lost[j])]

ChainIndex(n, c, msc, steps, lost) ==
    [i \in 0..(n - 1) |-> ChainEntry((i + n - c) % n, msc, steps, lost)]

GapArchives ==
    UNION { { [hdr |-> [Geometry(2, 4, 1, 1, n, {0, 2}) EXCEPT
                           !.current_major_block = c],
               index |-> ChainIndex(n, c, 4, steps, lost),
               counter |-> -3] :
                c \in 0..(n - 1),
                steps \in [1..(n - 1) -> TimeSteps],
                lost \in [1..(n - 1) -> FramesLost] } :
            n \in GapBlockCounts }

\* A call of find_gap.
FindGap(check_id0, start, blocks) ==
    /\ s_result = NothingSeen
    /\ s_result' =
          [ op |-> "find_gap",
            check_id0 |-> check_id0, start |-> start, blocks |-> blocks,
            out |-> find_gap(check_id0, start, blocks) ]
    /\ UNCHANGED << s_target, tvars >>

(***************************************************************************)
(* The first decimation of one group of samples.                           *)
(***************************************************************************)
\* The samples of a group: small values, and values near 2^28, whose squares
\* have more bits than the mantissa of a double; the sum of a group stays
\* within the integers of the model.
LargeSample == 2 ^ 28
SampleValues == {0, -3, 4, LargeSample, LargeSample + 6}
DecimationShifts == {1, 2}

\* The groups of 2^shift frames; every column holds the same samples, y
\* being the negative of x.
SampleGroups ==
    UNION { { [ f \in 1..(2 ^ shift) |->
                  [ id \in 0..(FA_ENTRY_COUNT - 1) |->
                      [x |-> xs[f], y |-> -xs[f]] ] ] :
                xs \in [1..(2 ^ shift) -> SampleValues] } :
            shift \in DecimationShifts }

\* decimate_column_one on column id of the group, keeping the accumulator
\* next to the slot computed from it.
DecimateColumnOne(id) ==
    /\ s_result = NothingSeen
    /\ LET shift == BitLen(Len(s_target)) - 1
           accum == decimate_column_one(s_target, id, 0, shift)
       IN  s_result' =
              [ op |-> "decimate_column_one", id |-> id, shift |-> shift,
                accum |-> accum, out |-> compute_result(accum, shift) ]
    /\ UNCHANGED << s_target, tvars >>

(***************************************************************************)
(* Filter masks.  A mask is the set of ids whose bits are set; a string is *)
(* the sequence of its characters, and reading at or past its end gives    *)
(* the terminating NUL.                                                    *)
(***************************************************************************)
NUL == ""
DecimalDigits == << "0", "1", "2", "3", "4", "5", "6", "7", "8", "9" >>
HexDigits == DecimalDigits \o << "A", "B", "C", "D", "E", "F" >>

CharAt(string, pos) == IF pos <= Len(string) THEN string[pos] ELSE NUL

IsDigit(ch) == \E d \in DOMAIN DecimalDigits : DecimalDigits[d] = ch

\* The value of a character that is a digit of HexDigits.
DigitValue(ch) == (CHOOSE d \in DOMAIN HexDigits : HexDigits[d] = ch) - 1

\* Bit b of a number that is not negative.
Bit(n, b) == (n \div (2 ^ b)) % 2 = 1

\* read_char: steps over the character ch when it is the next one.
read_char(string, pos, ch) ==
    IF CharAt(string, pos) = ch
    THEN [ok |-> TRUE, pos |-> pos + 1]
    ELSE [ok |-> FALSE, pos |-> pos]

\* The decimal number read from pos on, value being the number read so far.
RECURSIVE ReadDecimal(_, _, _)
ReadDecimal(string, pos, value) ==
    IF IsDigit(CharAt(string, pos))
    THEN ReadDecimal(string, pos + 1, 10 * value + DigitValue(string[pos]))
    ELSE [value |-> value, pos |-> pos]

\* parse_uint: a number of at least one decimal digit.
parse_uint(string, pos) ==
    LET number == ReadDecimal(string, pos, 0)
    IN  IF number.pos > pos
        THEN [ok |-> TRUE, pos |-> number.pos, value |-> number.value,
              error |-> "none"]
        ELSE [ok |-> FALSE, pos |-> pos, value |-> 0,
              error |-> "number missing"]

parse_id_inclusive(string, pos, fa_entry_count) ==
    LET number == parse_uint(string, pos)
    IN  IF number.ok /\ ~(number.value <= fa_entry_count)
        THEN [number EXCEPT !.ok = FALSE, !.error = "id out of range"]
        ELSE number

parse_id(string, pos, fa_entry_count) ==
    LET number == parse_uint(string, pos)
    IN  IF number.ok /\ ~(number.value < fa_entry_count)
        THEN [number EXCEPT !.ok = FALSE, !.error = "id out of range"]
        ELSE number

NibbleBitsOfLowHalf(i, nibble) ==
    { 8 * (i \div 2) + b : b \in { b \in 0..3 : Bit(nibble, b) } }

\* The bits of mask that nibble i of a raw mask sets: byte i / 2, the upper
\* half of the byte when i is odd.
NibbleBits(i, nibble) ==
    { 8 * (i \div 2) + 4 * (i % 2) + b : b \in { b \in 0..3 : Bit(nibble, b) } }

\* parse_raw_mask with i nibbles still to read.
RECURSIVE parse_raw_mask(_, _, _, _, _)
parse_raw_mask(string, pos, fa_entry_count, i, mask) ==
    IF i = 0
    THEN [ok |-> TRUE, pos |-> pos, mask |-> mask, error |-> "none"]
    ELSE LET ch == CharAt(string, pos)
         IN  IF \E d \in DOMAIN HexDigits : HexDigits[d] = ch
             THEN parse_raw_mask(
                      string, pos + 1, fa_entry_count, i - 1,
                      mask \cup NibbleBits(i - 1, DigitValue(ch)))
             ELSE [ok |-> FALSE, pos |-> pos + 1, mask |-> mask,
                   error |-> "unexpected character"]

\* One range of a list, read at pos: id, or id "-" end_id.
parse_range(string, pos, fa_entry_count) ==
    LET id == parse_id(string, pos, fa_entry_count)
        dash == read_char(string, id.pos, "-")
        end_id == parse_id(string, dash.pos, fa_entry_count)
    IN  IF ~id.ok
        THEN [ok |-> FALSE, pos |-> id.pos, ids |-> {}, error |-> id.error]
        ELSE IF ~dash.ok
        THEN [ok |-> TRUE, pos |-> id.pos, ids |-> {id.value},
              error |-> "none"]
        ELSE IF ~end_id.ok
        THEN [ok |-> FALSE, pos |-> end_id.pos, ids |-> {},
              error |-> end_id.error]
        ELSE IF id.value <= end_id.value
        THEN [ok |-> TRUE, pos |-> end_id.pos,
              ids |-> id.value..end_id.value, error |-> "none"]
        ELSE [ok |-> FALSE, pos |-> end_id.pos, ids |-> {},
              error |-> "empty range"]

\* The do loop of parse_mask: ranges separated by commas.
RECURSIVE parse_list(_, _, _, _)
parse_list(string, pos, fa_entry_count, mask) ==
    LET range == parse_range(string, pos, fa_entry_count)
        comma == read_char(string, range.pos, ",")
        set == mask \cup range.ids
    IN  IF range.ok /\ comma.ok
        THEN parse_list(string, comma.pos, fa_entry_count, set)
        ELSE [ok |-> range.ok, pos |-> comma.pos, mask |-> set,
              error |-> range.error]

parse_mask_list_only(string, fa_entry_count) ==
    parse_list(string, 1, fa_entry_count, {})

parse_mask(string, fa_entry_count) ==
    LET raw == read_char(string, 1, "R")
    IN  IF raw.ok
        THEN parse_raw_mask(
                 string, raw.pos, fa_entry_count, fa_entry_count \div 4, {})
        ELSE parse_list(string, 1, fa_entry_count, {})

\* sprintf "%d" of a number that is not negative.
RECURSIVE DecimalText(_)
DecimalText(value) ==
    IF value < 10
    THEN << DecimalDigits[value + 1] >>
    ELSE DecimalText(value \div 10) \o << DecimalDigits[(value % 10) + 1] >>

\* sprintf "%02X" of a byte.
HexByte(byte) == << HexDigits[(byte \div 16) + 1], HexDigits[(byte % 16) + 1] >>

\* mask->mask[i]: bit b of the byte is id 8 i + b.
RECURSIVE MaskByteFrom(_, _, _)
MaskByteFrom(mask, i, b) ==
    IF b = 8 THEN 0
    ELSE (IF test_mask_bit(mask, 8 * i + b) THEN 2 ^ b ELSE 0)
         + MaskByteFrom(mask, i, b + 1)
MaskByte(mask, i) == MaskByteFrom(mask, i, 0)

\* The loop of format_raw_mask, from byte i - 1 down to byte 0.
RECURSIVE RawBytes(_, _)
RawBytes(mask, i) ==
    IF i = 0 THEN << >>
    ELSE HexByte(MaskByte(mask, i - 1)) \o RawBytes(mask, i - 1)

format_raw_mask_low_first(mask, fa_entry_count) ==
    LET high_first == RawBytes(mask, fa_entry_count \div 8)
    IN  [ text |-> [ i \in DOMAIN high_first |->
                       high_first[Len(high_first) + 1 - i] ],
          length |-> 4 * fa_entry_count ]

\* format_raw_mask: the text written and the length returned.
format_raw_mask(mask, fa_entry_count) ==
    [ text |-> RawBytes(mask, fa_entry_count \div 8),
      length |-> 4 * fa_entry_count ]

\* The writers work on out = [ok, text, length]: the text written so far and
\* the room left in the buffer.
write_string_to_the_brim(out, value) ==
    IF Len(value) <= out.length
    THEN [ ok |-> TRUE, text |-> out.text \o value,
           length |-> out.length - Len(value) ]
    ELSE [out EXCEPT !.ok = FALSE]

write_string(out, value) ==
    IF Len(value) + 1 < out.length
    THEN [ ok |-> TRUE, text |-> out.text \o value,
           length |-> out.length - Len(value) ]
    ELSE [out EXCEPT !.ok = FALSE]

write_uint(out, value) == write_string(out, DecimalText(value))

write_range(out, range_start, range_end, first) ==
    LET comma == IF ~first THEN write_string(out, << "," >>) ELSE out
        low == IF comma.ok THEN write_uint(comma, range_start) ELSE comma
        dash == IF low.ok /\ range_end > range_start
                THEN write_string(low, << "-" >>)
                ELSE low
    IN  IF dash.ok /\ range_end > range_start
        THEN write_uint(dash, range_end)
        ELSE dash

\* The loop of format_readable_mask at id, at = [in_range, first,
\* range_start] being its local variables.
RECURSIVE ReadableFrom(_, _, _, _, _)
ReadableFrom(mask, fa_entry_count, id, at, out) ==
    IF out.ok /\ id < fa_entry_count
    THEN LET set == test_mask_bit(mask, id)
         IN  IF set /\ ~at.in_range
             THEN ReadableFrom(
                      mask, fa_entry_count, id + 1,
                      [at EXCEPT !.in_range = TRUE, !.range_start = id], out)
             ELSE IF ~set /\ at.in_range
             THEN ReadableFrom(
                      mask, fa_entry_count, id + 1,
                      [at EXCEPT !.in_range = FALSE, !.first = FALSE],
                      write_range(out, at.range_start, id - 1, at.first))
             ELSE ReadableFrom(mask, fa_entry_count, id + 1, at, out)
    ELSE IF out.ok /\ at.in_range
    THEN write_range(out, at.range_start, fa_entry_count - 1, at.first)
    ELSE out

format_readable_mask(mask, fa_entry_count, length) ==
    ReadableFrom(
        mask, fa_entry_count, 0,
        [in_range |-> FALSE, first |-> TRUE, range_start |-> 0],
        [ok |-> TRUE, text |-> << >>, length |-> length])

\* format_mask: the string left in the buffer and the length returned.
format_mask(mask, fa_entry_count) ==
    LET readable ==
            format_readable_mask(mask, fa_entry_count, fa_entry_count \div 4)
        raw == format_raw_mask(mask, fa_entry_count)
    IN  IF readable.ok
        THEN [text |-> readable.text, length |-> Len(readable.text)]
        ELSE [text |-> << "R" >> \o raw.text, length |-> raw.length]

(***************************************************************************)
(* The filter mask of the tools: lists only, ids read by strtol with base  *)
(* 0.                                                                      *)
(***************************************************************************)
Spaces == {" ", "\t", "\n", "\r", "\f"}
LowerHexDigits == << "a", "b", "c", "d", "e", "f" >>

\* The value of ch as a digit, or -1 when it is not one.
AnyDigitValue(ch) ==
    IF \E d \in DOMAIN HexDigits : HexDigits[d] = ch
    THEN DigitValue(ch)
    ELSE IF \E d \in DOMAIN LowerHexDigits : LowerHexDigits[d] = ch
    THEN 9 + (CHOOSE d \in DOMAIN LowerHexDigits : LowerHexDigits[d] = ch)
    ELSE -1

IsBaseDigit(ch, base) == AnyDigitValue(ch) >= 0 /\ AnyDigitValue(ch) < base

RECURSIVE SkipSpaces(_, _)
SkipSpaces(string, pos) ==
    IF CharAt(string, pos) \in Spaces
    THEN SkipSpaces(string, pos + 1)
    ELSE pos

RECURSIVE ReadBase(_, _, _, _)
ReadBase(string, pos, base, value) ==
    IF IsBaseDigit(CharAt(string, pos), base)
    THEN ReadBase(string, pos + 1, base,
                  base * value + AnyDigitValue(string[pos]))
    ELSE [value |-> value, pos |-> pos]

\* The number strtol reads in base from pos on, the string being left at
\* start when there are no digits.
StrtolNumber(start, negative, number, from) ==
    IF number.pos > from
    THEN [ value |-> IF negative THEN -number.value ELSE number.value,
           pos |-> number.pos ]
    ELSE [value |-> 0, pos |-> start]

\* The base strtol chooses at digits, the first character after the sign:
\* 16 after 0x, 8 after 0, 10 otherwise.
StrtolBase(string, start, negative, digits, hex) ==
    StrtolNumber(
        start, negative,
        ReadBase(string,
                 IF hex THEN digits + 2 ELSE digits,
                 IF hex THEN 16
                 ELSE IF CharAt(string, digits) = "0" THEN 8
                 ELSE 10,
                 0),
        IF hex THEN digits + 2 ELSE digits)

StrtolSigned(string, start, signed) ==
    StrtolBase(
        string, start, CharAt(string, signed) = "-",
        IF CharAt(string, signed) \in {"+", "-"} THEN signed + 1 ELSE signed,
        LET digits == IF CharAt(string, signed) \in {"+", "-"}
                      THEN signed + 1
                      ELSE signed
        IN  /\ CharAt(string, digits) = "0"
            /\ CharAt(string, digits + 1) \in {"x", "X"}
            /\ IsBaseDigit(CharAt(string, digits + 2), 16))

\* strtol(string, &next, 0): spaces, a sign, then a hexadecimal number after
\* 0x, an octal one after 0, a decimal one otherwise.
strtol(string, pos) == StrtolSigned(string, pos, SkipSpaces(string, pos))

\* The tests of read_id on the number that strtol read.
ReadIdTests(pos, fa_entry_count, number) ==
    IF ~(number.pos > pos)
    THEN [ok |-> FALSE, pos |-> pos, value |-> number.value,
          error |-> "number missing"]
    ELSE IF 0 <= number.value /\ number.value < fa_entry_count
    THEN [ok |-> TRUE, pos |-> number.pos, value |-> number.value,
          error |-> "none"]
    ELSE [ok |-> FALSE, pos |-> number.pos, value |-> number.value,
          error |-> "id out of range"]

read_id(string, pos, fa_entry_count) ==
    ReadIdTests(pos, fa_entry_count, strtol(string, pos))

\* The end of a range, after its first id and the dash.
ToolsRangeEnd(id, end_id) ==
    IF ~end_id.ok
    THEN [ok |-> FALSE, pos |-> end_id.pos, ids |-> {},
          error |-> end_id.error]
    ELSE IF id.value <= end_id.value
    THEN [ok |-> TRUE, pos |-> end_id.pos,
          ids |-> id.value..end_id.value, error |-> "none"]
    ELSE [ok |-> FALSE, pos |-> end_id.pos, ids |-> {},
          error |-> "empty range"]

\* A range after its first id.
ToolsRangeFrom(string, fa_entry_count, id) ==
    IF ~id.ok
    THEN [ok |-> FALSE, pos |-> id.pos, ids |-> {}, error |-> id.error]
    ELSE IF CharAt(string, id.pos) # "-"
    THEN [ok |-> TRUE, pos |-> id.pos, ids |-> {id.value}, error |-> "none"]
    ELSE ToolsRangeEnd(id, read_id(string, id.pos + 1, fa_entry_count))

\* One turn of the loop of parse_mask, up to the test for a comma.
tools_parse_range(string, pos, fa_entry_count) ==
    ToolsRangeFrom(string, fa_entry_count,
                   read_id(string, pos, fa_entry_count))

\* The while loop of parse_mask.
RECURSIVE tools_parse_list(_, _, _, _)
tools_parse_list(string, pos, fa_entry_count, mask) ==
    LET range == tools_parse_range(string, pos, fa_entry_count)
        set == mask \cup range.ids
    IN  IF CharAt(string, range.pos) # ","
        THEN [ok |-> range.ok, pos |-> range.pos, mask |-> set,
              error |-> range.error]
        ELSE IF range.ok
        THEN tools_parse_list(string, range.pos + 1, fa_entry_count, set)
        ELSE [ok |-> FALSE, pos |-> range.pos + 1, mask |-> set,
              error |-> range.error]

\* parse_mask of the tools: the whole string has to be a list.
tools_parse_mask(string, fa_entry_count) ==
    LET list == tools_parse_list(string, 1, fa_entry_count, {})
    IN  IF list.ok /\ CharAt(string, list.pos) # NUL
        THEN [list EXCEPT !.ok = FALSE, !.error = "unexpected characters"]
        ELSE list

(***************************************************************************)
(* Masks formatted and parsed.                                             *)
(***************************************************************************)
\* The entry counts, and the ids a mask is made of: every id of the
\* smallest count, and otherwise ids that form runs at both ends and in the
\* middle.
EntryCounts == {8, 16, 32, 64}
MaskIds(fa_entry_count) ==
    IF fa_entry_count = 8
    THEN 0..7
    ELSE {0, 1, 2, 3, 7, 10, 11, 12, fa_entry_count - 2, fa_entry_count - 1}

MaskTarget(fa_entry_count, kind, mask, ranges, string) ==
    [ fa_entry_count |-> fa_entry_count, kind |-> kind, mask |-> mask,
      ranges |-> ranges, string |-> string ]

MaskTargets ==
    UNION { { MaskTarget(n, "mask", mask, << >>, << >>) :
                mask \in SUBSET MaskIds(n) } :
            n \in EntryCounts }

\* Lists of ranges: the ids of a range lie on both sides of the entry
\* counts, and a range without an end has no_end for it.
ListCounts == {8, 16}
ListIds == {0, 3, 7, 8, 12, 15, 16, 20}
no_end == -1
ListRanges == [low : ListIds, high : ListIds \cup {no_end}]
RangeCounts == {1, 2}
RangeLists == UNION { [1..k -> ListRanges] : k \in RangeCounts }

RangeText(range) ==
    IF range.high = no_end
    THEN DecimalText(range.low)
    ELSE DecimalText(range.low) \o << "-" >> \o DecimalText(range.high)

RECURSIVE ListText(_)
ListText(ranges) ==
    IF Len(ranges) = 1
    THEN RangeText(ranges[1])
    ELSE RangeText(ranges[1]) \o << "," >> \o ListText(Tail(ranges))

ListTargets ==
    { MaskTarget(n, "list", {}, ranges, ListText(ranges)) :
        n \in ListCounts, ranges \in RangeLists }

\* Raw masks: R and up to fa_entry_count / 4 characters, digits or not.
RawChars == {"0", "1", "8", "C", "F", "G", "c"}
RawTargets ==
    UNION { UNION { { MaskTarget(n, "raw", {}, << >>, << "R" >> \o digits) :
                        digits \in [1..k -> RawChars] } :
                    k \in 0..(n \div 4) } :
            n \in ListCounts }

\* The strings of the examples.
ExampleList ==
    << "0", "-", "3", ",", "7", ",", "1", "0", "-", "1", "2" >>
ExampleRaw == << "R", "0", "0", "0", "0", "C", "0", "8", "0" >>
ExampleShortRaw == << "R", "1", "C", "8", "0" >>
ExampleTargets ==
    { MaskTarget(n, "example", {}, << >>, ExampleList) : n \in {16, 64} }
    \cup { MaskTarget(16, "example", {}, << >>, string) :
             string \in {ExampleRaw, ExampleShortRaw} }

NotCalled == [ok |-> FALSE, called |-> FALSE]

\* format_mask on the mask of the target.
FormatMask ==
    /\ s_target.kind = "mask"
    /\ s_result = NothingSeen
    /\ s_result' =
          [ op |-> "format_mask",
            formatted |-> format_mask(s_target.mask, s_target.fa_entry_count),
            parsed |-> NotCalled ]
    /\ UNCHANGED << s_target, tvars >>

\* parse_mask on the string that format_mask produced.
ParseFormatted ==
    /\ s_target.kind = "mask"
    /\ s_result # NothingSeen
    /\ s_result.op = "format_mask"
    /\ s_result' =
          [ s_result EXCEPT
              !.op = "parse_mask",
              !.parsed =
                  parse_mask(s_result.formatted.text,
                             s_target.fa_entry_count) ]
    /\ UNCHANGED << s_target, tvars >>

\* parse_mask on the string of the target.
ParseMask ==
    /\ s_target.kind # "mask"
    /\ s_result = NothingSeen
    /\ s_result' =
          [ op |-> "parse_mask",
            formatted |-> NotCalled,
            parsed |-> parse_mask(s_target.string, s_target.fa_entry_count) ]
    /\ UNCHANGED << s_target, tvars >>

\* format_mask on the mask that parse_mask produced.
FormatParsed ==
    /\ s_target.kind # "mask"
    /\ s_result # NothingSeen
    /\ s_result.op = "parse_mask"
    /\ s_result.parsed.ok
    /\ s_result' =
          [ s_result EXCEPT
              !.op = "format_mask",
              !.formatted =
                  format_mask(s_result.parsed.mask,
                              s_target.fa_entry_count) ]
    /\ UNCHANGED << s_target, tvars >>

\* parse_mask of the tools on the string of the target.
ToolsParseMask ==
    /\ s_target.kind # "mask"
    /\ s_result = NothingSeen
    /\ s_result' =
          [ op |-> "tools_parse_mask",
            formatted |-> NotCalled,
            parsed |->
                tools_parse_mask(s_target.string, s_target.fa_entry_count) ]
    /\ UNCHANGED << s_target, tvars >>

(***************************************************************************)
(* Specifications.                                                         *)
(***************************************************************************)
Init == TransformInit /\ WriterInit /\ NoLookup /\ SnifferInit

Next ==
    \/ \E in \in BlockInputs : ProcessData(in) /\ UNCHANGED << wvars, svars, nvars >>
    \/ \E gap \in GapInputs : ProcessGap(gap) /\ UNCHANGED << wvars, svars, nvars >>
    \/ ProcessLock /\ UNCHANGED << wvars, svars, nvars >>
    \/ write_major_block /\ UNCHANGED << wvars, svars, nvars >>
    \/ advance_index_write /\ UNCHANGED << wvars, svars, nvars >>
    \/ advance_index_advance /\ UNCHANGED << wvars, svars, nvars >>
    \/ ProcessUnlock /\ UNCHANGED << wvars, svars, nvars >>
    \/ \E query \in ReaderQueries :
          ReaderLock(query) /\ UNCHANGED << wvars, svars, nvars >>
    \/ ReaderLookup /\ UNCHANGED << wvars, svars, nvars >>
    \/ ReaderUnlock /\ UNCHANGED << wvars, svars, nvars >>

\* The transform stage with a reader of the index.
Spec == Init /\ [][Next]_vars

WriterSpecInit ==
    /\ initialise_transform(FreshArchive)
    /\ WriterInit
    /\ NoLookup
    /\ SnifferInit

WriterSpecNext ==
    \/ GetValidReadBlock /\ UNCHANGED << tvars, svars, nvars >>
    \/ WaitReadBlock /\ UNCHANGED << tvars, svars, nvars >>
    \/ WaitCheck /\ UNCHANGED << tvars, svars, nvars >>
    \/ WaitExit /\ UNCHANGED << tvars, svars, nvars >>
    \/ WriterStart /\ UNCHANGED << tvars, svars, nvars >>
    \/ WriterLoop /\ UNCHANGED << tvars, svars, nvars >>
    \/ TerminateStop /\ UNCHANGED << tvars, svars, nvars >>
    \/ TerminateStopReader /\ UNCHANGED << tvars, svars, nvars >>
    \/ TerminateClose /\ UNCHANGED << tvars, svars, nvars >>
    \/ Restart /\ UNCHANGED << tvars, svars, nvars >>

\* The disk writer with the main thread that terminates and restarts it.
WriterSpec == WriterSpecInit /\ [][WriterSpecNext]_vars

SearchSpecInit == SearchInit /\ WriterInit /\ SnifferInit

SearchSpecNext ==
    \/ Search /\ UNCHANGED << wvars, nvars >>
    \/ \E all_data \in BOOLEAN :
          TimestampToStart(all_data) /\ UNCHANGED << wvars, nvars >>
    \/ \E all_data \in BOOLEAN :
          TimestampToEnd(all_data) /\ UNCHANGED << wvars, nvars >>

\* Lookups on existing archives.
SearchSpec == SearchSpecInit /\ [][SearchSpecNext]_vars

GapSpecInit ==
    /\ \E setup \in GapArchives : initialise_transform(setup)
    /\ WriterInit
    /\ NoLookup
    /\ SnifferInit

GapSpecNext ==
    \E check_id0 \in BOOLEAN, start \in DOMAIN data_index,
       blocks \in FindGapBlocks :
        FindGap(check_id0, start, blocks) /\ UNCHANGED << wvars, nvars >>

\* find_gap on full archives.
GapSpec == GapSpecInit /\ [][GapSpecNext]_vars

DecimateSpecInit ==
    /\ initialise_transform(FreshArchive)
    /\ WriterInit
    /\ s_target \in SampleGroups
    /\ s_result = NothingSeen
    /\ SnifferInit

DecimateSpecNext ==
    \E id \in 0..(FA_ENTRY_COUNT - 1) :
        DecimateColumnOne(id) /\ UNCHANGED << wvars, nvars >>

\* The first decimation of groups of samples.
DecimateSpec == DecimateSpecInit /\ [][DecimateSpecNext]_vars

MaskSpecInit ==
    /\ initialise_transform(FreshArchive)
    /\ WriterInit
    /\ s_target \in
          MaskTargets \cup ListTargets \cup RawTargets \cup ExampleTargets
    /\ s_result = NothingSeen
    /\ SnifferInit

MaskSpecNext ==
    \/ FormatMask /\ UNCHANGED << wvars, nvars >>
    \/ ParseFormatted /\ UNCHANGED << wvars, nvars >>
    \/ ParseMask /\ UNCHANGED << wvars, nvars >>
    \/ FormatParsed /\ UNCHANGED << wvars, nvars >>
    \/ ToolsParseMask /\ UNCHANGED << wvars, nvars >>

\* Filter masks formatted and parsed.
MaskSpec == MaskSpecInit /\ [][MaskSpecNext]_vars

SnifferSpecInit ==
    /\ initialise_transform(FreshArchive)
    /\ WriterInit
    /\ NoLookup
    /\ \E config \in SnifferConfigs : SnifferStart(config)

SnifferSpecNext ==
    \/ SnifferGet /\ UNCHANGED << tvars, wvars, svars >>
    \/ \E ok \in BOOLEAN, stamp \in DeviceTimestamps,
          nibbles \in CorrectorNibbles :
          SnifferRead(ok, stamp, nibbles)
          /\ UNCHANGED << tvars, wvars, svars >>
    \/ \E kept_up \in BOOLEAN :
          SnifferRelease(kept_up) /\ UNCHANGED << tvars, wvars, svars >>
    \/ \E status_ok \in BOOLEAN :
          SnifferLog(status_ok) /\ UNCHANGED << tvars, wvars, svars >>
    \/ SnifferSleep /\ UNCHANGED << tvars, wvars, svars >>
    \/ SnifferReset /\ UNCHANGED << tvars, wvars, svars >>
    \/ SnifferCancel /\ UNCHANGED << tvars, wvars, svars >>

\* The sniffer thread.
SnifferSpec == SnifferSpecInit /\ [][SnifferSpecNext]_vars

\* A step of the writer thread.
WriterThread ==
    \/ GetValidReadBlock
    \/ WaitReadBlock
    \/ WaitCheck
    \/ WaitExit
    \/ WriterStart
    \/ WriterLoop

\* The disk writer under fair scheduling: the writer thread takes a step
\* whenever it can, and terminate_disk_writer, once called, goes on to
\* stop_reader, pthread_join and close_header.
WriterFairSpec ==
    /\ WriterSpec
    /\ WF_vars(WriterThread /\ UNCHANGED << tvars, svars, nvars >>)
    /\ WF_vars(TerminateStopReader /\ UNCHANGED << tvars, svars, nvars >>)
    /\ WF_vars(TerminateClose /\ UNCHANGED << tvars, svars, nvars >>)

\* Geometries [input_frame_count, major_sample_count, first_decimation_log2,
\* second_decimation_log2] in which major_sample_count is a positive
\* multiple of input_frame_count.
Geometries ==
    { << 2, 2, 1, 0 >>, << 1, 4, 1, 0 >>, << 2, 4, 1, 1 >>,
      << 1, 4, 0, 1 >>, << 2, 6, 1, 0 >>, << 3, 6, 0, 0 >> }

GeometrySetups ==
    { [hdr |-> [Geometry(g[1], g[2], g[3], g[4], 2, {0, 2}) EXCEPT
                   !.current_major_block = current],
       index |-> FreshIndex(2), counter |-> 0] :
        g \in Geometries, current \in 0..1 }

GeometrySpecInit ==
    /\ \E setup \in GeometrySetups : initialise_transform(setup)
    /\ WriterInit
    /\ NoLookup
    /\ SnifferInit

GeometrySpecNext ==
    \/ \E in \in BlockInputs :
          ProcessData(in) /\ UNCHANGED << wvars, svars, nvars >>
    \/ \E gap \in GapInputs :
          ProcessGap(gap) /\ UNCHANGED << wvars, svars, nvars >>
    \/ ProcessLock /\ UNCHANGED << wvars, svars, nvars >>
    \/ write_major_block /\ UNCHANGED << wvars, svars, nvars >>
    \/ advance_index_write /\ UNCHANGED << wvars, svars, nvars >>
    \/ advance_index_advance /\ UNCHANGED << wvars, svars, nvars >>
    \/ ProcessUnlock /\ UNCHANGED << wvars, svars, nvars >>

\* The transform stage over the geometries, fed data blocks and gaps.
GeometrySpec == GeometrySpecInit /\ [][GeometrySpecNext]_vars


(***************************************************************************)
(* Properties of the transform stage.                                      *)
(***************************************************************************)
\* The thread calling process_block is inside the critical section that
\* completes a major block.
Completing == t_pc \in {"lock", "write", "index", "advance"}

\* The last write handed to schedule_write.
LastScheduled == scheduled[Len(scheduled)]

\* C1: process_block advances current_major_block by exactly one modulo
\* major_block_count each time timestamp_count consecutive data blocks have
\* been processed since the last advance or gap (the call that processes
\* the last of them does not return before the advance), and at no other
\* time; the completed block is scheduled for writing at
\* major_data_start + c * major_block_size, c being current_major_block
\* before the advance.
C1_AdvanceEveryTimestampCount ==
    /\ [](run_blocks <= timestamp_count)
    /\ [](run_blocks = timestamp_count <=> Completing)
    /\ [][header'.current_major_block # header.current_major_block =>
            /\ header'.current_major_block =
                  (header.current_major_block + 1) % header.major_block_count
            /\ run_blocks = timestamp_count
            /\ run_blocks' = 0
            /\ Len(scheduled) > 0
            /\ scheduled' = scheduled
            /\ LastScheduled.offset =
                  header.major_data_start
                    + header.current_major_block * header.major_block_size
            /\ LastScheduled.length = header.major_block_size]_vars

\* E1 of C1: on a fresh archive the first major_sample_count frames take
\* current_major_block from 0 to 1 with one write at major_data_start.
C1_Witness ==
    /\ t_pc = "idle"
    /\ calls = timestamp_count
    /\ run_blocks = 0
    /\ header.current_major_block = 1
    /\ Len(scheduled) = 1
    /\ scheduled[1].offset = header.major_data_start

\* C2: a gap at any point of a partially filled major block resets
\* fa_offset, d_offset and timestamp_index to 0 and re-initialises every
\* double decimation accumulator; it leaves current_major_block,
\* current_buffer and the index entries of the blocks other than
\* current_major_block unchanged and schedules no write; and the next major
\* block to complete holds the transposed and decimated data of the
\* timestamp_count blocks received after the gap and of no other block.
GapStep == last_event' = "gap" /\ calls' = calls + 1

\* The FA and decimated areas of a major block built from the given blocks.
BuiltFrom(blocks) ==
    [ fa |-> [w \in 0..(output_id_count - 1) |->
                [k \in 0..(header.major_sample_count - 1) |->
                    blocks[(k \div input_frame_count) + 1]
                          [(k % input_frame_count) + 1]
                          [ArchivedId(header.archive_mask, w)]]],
      d  |-> [w \in 0..(output_id_count - 1) |->
                [k \in 0..(Shr(header.major_sample_count,
                               header.first_decimation_log2) - 1) |->
                    compute_result(
                        decimate_column_one(
                            blocks[(k \div input_decimation_count) + 1],
                            ArchivedId(header.archive_mask, w),
                            k % input_decimation_count,
                            header.first_decimation_log2),
                        header.first_decimation_log2)]] ]

C2_GapDiscardsPartialBlock ==
    /\ [][GapStep =>
            /\ fa_offset' = 0
            /\ d_offset' = 0
            /\ timestamp_index' = 0
            /\ \A w \in DOMAIN double_accumulators' :
                  double_accumulators'[w] = initialise_accum
            /\ header'.current_major_block = header.current_major_block
            /\ current_buffer' = current_buffer
            /\ \A i \in DOMAIN data_index :
                  i # header.current_major_block =>
                      data_index'[i] = data_index[i]
            /\ scheduled' = scheduled]_vars
    /\ [](t_pc \in {"index", "advance"} =>
            /\ Len(recent) = timestamp_count
            /\ LastScheduled.data = BuiltFrom(recent))

\* A gap arrived after the first input block of a major block.
C2_Witness ==
    /\ last_event = "gap"
    /\ \E gap \in GapInputs : first_timestamp = now - gap.dt
    /\ buffers[current_buffer].fa[0][0] # Unwritten
    /\ fa_offset = 0
    /\ d_offset = 0
    /\ timestamp_index = 0

\* C3: current_major_block is written only while transform_lock is held by
\* process_block, and the timestamp and duration of the block being
\* completed are written in the same critical section before the pointer
\* is advanced; a lookup, which holds the lock from start to end, sees
\* neither current_major_block change nor the timestamp or duration of a
\* block other than current_major_block change.
InCriticalSection ==
    transform_lock = Transform /\ transform_lock' = Transform

C3_IndexInterlock ==
    /\ [][header'.current_major_block # header.current_major_block =>
            /\ InCriticalSection
            /\ data_index[header.current_major_block].timestamp =
                  advance_index_entry.timestamp
            /\ data_index[header.current_major_block].duration =
                  advance_index_entry.duration]_vars
    /\ [][\A i \in DOMAIN data_index :
            (\/ data_index'[i].timestamp # data_index[i].timestamp
             \/ data_index'[i].duration # data_index[i].duration) =>
                /\ InCriticalSection
                /\ i = header.current_major_block
                /\ header'.current_major_block =
                      header.current_major_block]_vars
    /\ [](r_pc \in {"locked", "found"} =>
            /\ transform_lock = Reader
            /\ r_seen.current_major_block = header.current_major_block
            /\ \A i \in DOMAIN data_index :
                  i # header.current_major_block =>
                      /\ r_seen.index[i].timestamp = data_index[i].timestamp
                      /\ r_seen.index[i].duration = data_index[i].duration)

\* A lookup is finished and still holds the lock while process_block waits
\* for it with a complete major block.
C3_Witness ==
    /\ r_pc = "found"
    /\ t_pc = "lock"
    /\ transform_lock = Reader

\* C4: with the x field of id 0 a counter of frames, a major block completed
\* straight after another with no gap between them has the id_zero of the
\* earlier one plus major_sample_count modulo 2^32, and the id_zero of a
\* completed block is the x field of id 0 of the first frame of the first
\* block received since the last gap or completion.
PreviousBlock ==
    (header.current_major_block + header.major_block_count - 1)
        % header.major_block_count

C4_IdZeroAdvances ==
    t_pc = "advance" =>
        /\ data_index[header.current_major_block].id_zero = recent[1][1][0].x
        /\ (Len(scheduled) >= 2 /\ ~gap_seen) =>
              data_index[header.current_major_block].id_zero =
                  Add32(data_index[PreviousBlock].id_zero,
                        header.major_sample_count)

\* Two major blocks completed in a row, the counter wrapping between them.
C4_Witness ==
    /\ t_pc = "advance"
    /\ Len(scheduled) >= 2
    /\ ~gap_seen
    /\ data_index[PreviousBlock].id_zero > 0
    /\ data_index[header.current_major_block].id_zero < 0


(***************************************************************************)
(* Properties of the disk writer.                                          *)
(***************************************************************************)
block_count == disk_header.h.block_count
blocks == disk_header.blocks

\* The step of get_valid_read_block that finds no data while archiving.
GapFound == w_pc = "get" /\ w_pc' = "wait" /\ w_archiving

\* The step that leaves get_valid_read_block after a gap.
GapLeft == w_pc = "wait_exit" /\ w_pc' # "wait_exit"

\* C5: while the disk writer is archiving, a run of gap sentinels followed
\* by a data block pushes exactly one new segment: the gap closes the
\* segment being written with stop_offset = write_offset, nothing is pushed
\* while the gap lasts, and on the data block the segments move down one
\* position, blocks[0].start_offset is write_offset and block_count grows
\* by one up to MAX_HEADER_BLOCKS; segments are pushed at no other time
\* than this and the start of the writer thread.
C5_GapPushesOneSegment ==
    /\ [][GapFound =>
            /\ disk_header'.h.block_count = block_count
            /\ disk_header'.blocks[0].stop_offset = write_offset
            /\ disk_header'.blocks[0].start_offset = blocks[0].start_offset
            /\ \A i \in 1..(MAX_HEADER_BLOCKS - 1) :
                  disk_header'.blocks[i] = blocks[i]
            /\ segments' = segments]_vars
    /\ [][(w_pc \in {"wait", "wait_check"}) =>
            (disk_header' = disk_header /\ segments' = segments)]_vars
    /\ [][GapLeft =>
            IF writer_running /\ w_archiving
            THEN /\ w_block = DataBlock
                 /\ segments' = segments + 1
                 /\ write_offset' = write_offset
                 /\ blocks[0].stop_offset = write_offset
                 /\ \A i \in 1..(MAX_HEADER_BLOCKS - 1) :
                       disk_header'.blocks[i] = blocks[i - 1]
                 /\ disk_header'.blocks[0].start_offset = write_offset
                 /\ disk_header'.h.block_count =
                       Min(block_count + 1, MAX_HEADER_BLOCKS)
            ELSE (disk_header' = disk_header /\ segments' = segments)]_vars
    /\ [][segments' # segments =>
            /\ segments' = segments + 1
            /\ \/ w_pc = "start"
               \/ w_pc = "wait_exit" /\ w_archiving /\ writer_running]_vars

\* One gap after two blocks on a fresh archive: block_count is 2.
C5_Witness ==
    /\ runs = 1
    /\ segments = 2
    /\ blocks_written = 2
    /\ w_pc = "write"
    /\ block_count = 2
    /\ blocks[0].start_offset = write_offset
    /\ blocks[1].stop_offset = write_offset

\* The offsets of the interval (old, wo] taken modulo the data size.
Overwritten(offset, old, wo) ==
    \E d \in 1..((wo - old + data_size) % data_size) :
        offset = (old + d) % data_size

\* The data blocks of the half open interval [start, stop) of the data
\* area, taken modulo the data size.
SlotsOf(b) ==
    { slot \in DOMAIN disk_data :
        LET offset == slot * fa_block_size
        IN  IF b.start_offset <= b.stop_offset
            THEN b.start_offset <= offset /\ offset < b.stop_offset
            ELSE b.start_offset <= offset \/ offset < b.stop_offset }

BlockWritten == blocks_written' = blocks_written + 1

\* C6: after every block write the segments removed from the directory are
\* those at its tail, the last remaining one excepted, whose stop_offset
\* lies in (old_write_offset, write_offset] modulo the data size, and the
\* start_offset of the oldest remaining segment becomes write_offset when
\* the write overwrote it; no segment other than the newest describes data
\* written after it was closed; and with a single segment and no gap
\* block_count stays 1, with start_offset moved to write_offset, however
\* often write_offset wraps.
C6_ExpiryFollowsWrites ==
    /\ [][BlockWritten =>
            LET old == old_write_offset
                wo == write_offset'
                count == disk_header'.h.block_count
            IN  /\ old = write_offset
                /\ 1 <= count /\ count <= block_count
                /\ \A j \in count..(block_count - 1) :
                      Overwritten(blocks[j].stop_offset, old, wo)
                /\ count > 1 =>
                      ~Overwritten(blocks[count - 1].stop_offset, old, wo)
                /\ \A i \in 0..(count - 1) :
                      /\ disk_header'.blocks[i].start_offset =
                            IF /\ i = count - 1
                               /\ \/ Overwritten(
                                        blocks[i].start_offset, old, wo)
                                  \/ blocks[i].start_offset = old
                            THEN wo
                            ELSE blocks[i].start_offset
                      /\ i >= 1 =>
                            /\ disk_header'.blocks[i].stop_offset =
                                  blocks[i].stop_offset
                            /\ disk_header'.blocks[i].start_sec =
                                  blocks[i].start_sec
                            /\ disk_header'.blocks[i].stop_sec =
                                  blocks[i].stop_sec]_vars
    /\ [](\A i \in 1..(block_count - 1) :
            \A slot \in SlotsOf(blocks[i]) :
                disk_data[slot] <= segment_of[i])
    /\ [](segments = 1 /\ blocks_written >= 1 =>
            block_count = 1 /\ blocks[0].start_offset = write_offset)

\* The second segment has written over all of the first, which is gone.
C6_Witness ==
    /\ runs = 1
    /\ segments = 2
    /\ block_count = 1
    /\ blocks_written > DataBlocks
    /\ \A slot \in DOMAIN disk_data : disk_data[slot] = 2

\* C7: 0 <= block_count <= MAX_HEADER_BLOCKS, block_count >= 1 once
\* start_archive_block has been called, and the directory is ordered most
\* recent first: blocks[0] is the segment being written and start_sec does
\* not increase down the directory.
C7_DirectoryOrdered ==
    /\ 0 <= block_count
    /\ block_count <= MAX_HEADER_BLOCKS
    /\ segments >= 1 => block_count >= 1 /\ segment_of[0] = segments
    /\ \A i \in 0..(block_count - 2) :
          /\ blocks[i].start_sec >= blocks[i + 1].start_sec
          /\ segment_of[i] > segment_of[i + 1]

\* More segments were started than the directory holds, and the directory
\* is full.
C7_Witness ==
    /\ block_count = MAX_HEADER_BLOCKS
    /\ segments > MAX_HEADER_BLOCKS
    /\ blocks[0].start_sec > blocks[1].start_sec

\* C8: the disk_status of the mapped header is 1 in every state from the
\* first data block written after startup until shutdown begins and 0
\* after terminate_disk_writer; it changes only from 0 to 1 while the
\* writer runs and from 1 to 0 at shutdown.
C8_StatusOnDiskWhileWriting ==
    /\ [](w_archiving /\ m_pc = "running" =>
            header_mmap.h.disk_status = 1)
    /\ [](m_pc = "closed" => header_mmap.h.disk_status = 0)
    /\ [][header_mmap'.h.disk_status # header_mmap.h.disk_status =>
            IF header_mmap.h.disk_status = 0
            THEN m_pc = "running" /\ w_pc \notin {"done"}
            ELSE m_pc = "join" /\ m_pc' = "closed"]_vars


(***************************************************************************)
(* Properties of binary_search.                                            *)
(***************************************************************************)
\* The blocks binary_search looks among, in cyclic order from block
\* current + 1 + INDEX_SKIP to block current - 1.
SearchRange == header.major_block_count - 1 - INDEX_SKIP
SearchBlock(p) ==
    (header.current_major_block + 1 + INDEX_SKIP + p)
        % header.major_block_count

TimestampsOrdered ==
    \A p \in 0..(SearchRange - 2) :
        data_index[SearchBlock(p)].timestamp
            <= data_index[SearchBlock(p + 1)].timestamp

\* Block p of the range is written and starts no later than the target.
Candidate(p) ==
    /\ data_index[SearchBlock(p)].duration > 0
    /\ data_index[SearchBlock(p)].timestamp <= s_target

Searched == s_result # NothingSeen /\ "run" \in DOMAIN s_result

\* C9: when the timestamps of the blocks current + 1 + INDEX_SKIP to
\* current - 1 do not decrease in cyclic order and some block among them
\* has duration > 0 and timestamp <= ts, binary_search(ts) returns the
\* latest such block in cyclic order; and it returns high whenever the
\* block it converges on has duration 0.
C9_LatestBlockNotAfter ==
    Searched =>
        /\ (TimestampsOrdered /\ \E p \in 0..(SearchRange - 1) : Candidate(p))
              => \E p \in 0..(SearchRange - 1) :
                    /\ Candidate(p)
                    /\ \A q \in (p + 1)..(SearchRange - 1) : ~Candidate(q)
                    /\ s_result.index = SearchBlock(p)
        /\ data_index[s_result.run.low].duration = 0
              => s_result.index = s_result.run.high

\* The search moved both bounds, across the end of the index, and found a
\* block that starts before the target and is followed by a later one.
C9_Witness ==
    /\ Searched
    /\ TimestampsOrdered
    /\ \E p \in 1..(SearchRange - 2) :
          /\ Candidate(p)
          /\ s_result.index = SearchBlock(p)
          /\ data_index[SearchBlock(p)].timestamp < s_target
          /\ s_target < data_index[SearchBlock(p + 1)].timestamp
          /\ SearchBlock(p + 1) < SearchBlock(p)

RECURSIVE CeilLog2From(_, _)
CeilLog2From(n, k) == IF 2 ^ k >= n THEN k ELSE CeilLog2From(n, k + 1)
CeilLog2(n) == CeilLog2From(n, 0)

AllBlocks == 0..(header.major_block_count - 1)

\* C11: binary_search terminates for every major_block_count N >= 1, every
\* current_major_block in [0, N) and every index content, after at most
\* ceil(log2 N) + 1 loop iterations, and every index it reads (mid, low)
\* lies in [0, N).
C11_SearchTerminates ==
    Searched =>
        /\ (s_result.run.low + 1) % header.major_block_count
              = s_result.run.high
        /\ s_result.run.iterations <= CeilLog2(header.major_block_count) + 1
        /\ s_result.run.reads \subseteq AllBlocks
        /\ s_result.run.low \in AllBlocks
        /\ s_result.index \in AllBlocks

\* A search of the whole ring (major_block_count 3, where the bounds start
\* equal) that took two iterations, and one of seven blocks whose range
\* wraps over the end of the index.
C11_Witness ==
    /\ Searched
    /\ s_result.run.iterations = 2
    /\ \/ header.major_block_count = 3
       \/ /\ header.major_block_count = 7
          /\ \E i \in s_result.run.reads : i < header.current_major_block
          /\ \E i \in s_result.run.reads : i > header.current_major_block

\* The blocks at current + 1 and current + 2 that the lower bound of the
\* search skips.
SafetyBand ==
    { (header.current_major_block + k) % header.major_block_count :
        k \in 1..INDEX_SKIP }

NonEmptyArchive == \E i \in AllBlocks : data_index[i].duration > 0

StartLooked ==
    s_result # NothingSeen /\ "op" \in DOMAIN s_result
        /\ s_result.op = "timestamp_to_start"

EndLooked ==
    s_result # NothingSeen /\ "op" \in DOMAIN s_result
        /\ s_result.op = "timestamp_to_end"

\* C12: for major_block_count >= 4 and a non-empty archive, binary_search
\* never reads data_index[current_major_block] inside its loop and never
\* returns a block of the INDEX_SKIP = 2 safety band (the blocks at
\* current + 1 and current + 2 modulo major_block_count), and a successful
\* timestamp_to_start never yields current_major_block nor a block of that
\* band as the start block of a query.
C12_SafetyBandNeverRead ==
    (header.major_block_count >= 4 /\ NonEmptyArchive) =>
        /\ Searched =>
              /\ header.current_major_block \notin s_result.run.reads
              /\ s_result.run.reads \cap SafetyBand = {}
              /\ s_result.index \notin SafetyBand
        /\ (StartLooked /\ s_result.out.ok) =>
              /\ s_result.out.block # header.current_major_block
              /\ s_result.out.block \notin SafetyBand

\* A query that starts at the oldest block outside the band of a full
\* archive, and a query that skipped the gap after its block.
C12_Witness ==
    /\ header.major_block_count >= 6
    /\ \A i \in AllBlocks : data_index[i].duration > 0
    /\ StartLooked
    /\ s_result.out.ok
    /\ s_result.out.block =
          (header.current_major_block + 1 + INDEX_SKIP)
              % header.major_block_count
    /\ s_target >= data_index[s_result.out.block].timestamp


\* The end of block b as its index entry gives it.
BlockEnd(b) == data_index[b].timestamp + data_index[b].duration

\* The block a query for the start time s_target begins at: the block
\* binary_search finds, or the next one when the time is at or after the
\* end of that block.
LocatedStart ==
    LET b == binary_search(s_target)
    IN  IF s_target >= BlockEnd(b)
        THEN (b + 1) % header.major_block_count
        ELSE b

\* The number of blocks from block b up to but excluding the current block,
\* in cyclic order.
BlocksBefore(b) ==
    Cardinality({ k \in 1..header.major_block_count :
                    \A j \in 0..(k - 1) :
                        (b + j) % header.major_block_count
                            # header.current_major_block })

\* C13: on a non-empty archive timestamp_to_start(ts, all_data) fails with
\* "Start time too late" exactly when the block located for ts (after
\* skipping a trailing gap) is current_major_block; otherwise it fails with
\* "Start time in data gap" exactly when all_data is false and the located
\* block starts after ts; otherwise it succeeds, and then samples_available
\* is the number of blocks from the start block up to but excluding
\* current_major_block, cyclically, times major_sample_count, minus offset,
\* which is > 0.
C13_StartErrors ==
    (NonEmptyArchive /\ StartLooked) =>
        LET out == s_result.out
            late == LocatedStart = header.current_major_block
            data_gap == /\ ~s_result.all_data
                        /\ data_index[LocatedStart].timestamp > s_target
        IN  /\ out.block = LocatedStart
            /\ out.error = "Start time too late" <=> late
            /\ out.error = "Start time in data gap" <=> (~late /\ data_gap)
            /\ out.ok <=> (~late /\ ~data_gap)
            /\ out.ok =>
                  /\ out.samples_available =
                        BlocksBefore(out.block) * header.major_sample_count
                            - out.offset
                  /\ out.samples_available > 0

\* A query that succeeds part way into a block that lies after the current
\* block in the index, so that the blocks up to the current block wrap.
C13_Witness ==
    /\ NonEmptyArchive
    /\ StartLooked
    /\ s_result.out.ok
    /\ s_result.out.block > header.current_major_block
    /\ s_result.out.offset > 0
    /\ BlocksBefore(s_result.out.block) >= 2

\* C14: timestamp_to_end(ts, all_data) fails with "End timestamp too late"
\* exactly when all_data is false and ts is strictly greater than timestamp
\* + duration of the block located for ts; when ts is at or beyond the end
\* of the located block it never advances to the next block but returns
\* offset = major_sample_count - 1 of the located block.
C14_EndErrors ==
    EndLooked =>
        LET out == s_result.out
            b == binary_search(s_target)
            late == ~s_result.all_data /\ s_target > BlockEnd(b)
        IN  /\ out.block = b
            /\ ~out.ok <=> late
            /\ out.error = "End timestamp too late" <=> late
            /\ s_target >= BlockEnd(b) =>
                  out.offset = header.major_sample_count - 1

\* A query for the time at which a written block ends, which is accepted
\* without all_data and is given the last sample of that block.
C14_Witness ==
    /\ EndLooked
    /\ ~s_result.all_data
    /\ data_index[s_result.out.block].duration > 0
    /\ s_target = BlockEnd(s_result.out.block)
    /\ s_result.out.ok
    /\ s_result.out.offset = header.major_sample_count - 1
    /\ s_result.out.block # header.current_major_block


(***************************************************************************)
(* Properties of find_gap.                                                 *)
(***************************************************************************)
GapLooked ==
    s_result # NothingSeen /\ "op" \in DOMAIN s_result
        /\ s_result.op = "find_gap"

\* The step in time from the end of block b to the start of the block
\* after it.
StepAfter(b) ==
    data_index[(b + 1) % header.major_block_count].timestamp - BlockEnd(b)

\* The blocks b and b + 1 do not follow one another.
GapAfter(check_id0, b) ==
    \/ StepAfter(b) > MAX_DELTA_T
    \/ -StepAfter(b) > MAX_DELTA_T
    \/ /\ check_id0
       /\ data_index[(b + 1) % header.major_block_count].id_zero
            # Add32(data_index[b].id_zero, header.major_sample_count)

\* C15: find_gap(check_id0, start, k) returns true iff there is a pair of
\* cyclically consecutive blocks b, b + 1 within [start, start + k) such
\* that |data_index[b + 1].timestamp - (data_index[b].timestamp +
\* data_index[b].duration)| > MAX_DELTA_T = 1000, or (only when check_id0)
\* data_index[b + 1].id_zero # data_index[b].id_zero + major_sample_count
\* (mod 2^32); a difference of exactly 1000 is not a gap, and for k <= 1 it
\* returns false.
C15_FindGapIffPairDisagrees ==
    GapLooked =>
        /\ s_result.out.result <=>
              \E j \in 0..(s_result.blocks - 2) :
                  GapAfter(s_result.check_id0,
                           (s_result.start + j) % header.major_block_count)
        /\ s_result.blocks <= 1 => ~s_result.out.result

\* A walk over three blocks, across the end of the index, whose first step
\* is exactly MAX_DELTA_T and whose second is one more, the id 0 not being
\* checked.
C15_Witness ==
    /\ GapLooked
    /\ ~s_result.check_id0
    /\ s_result.blocks = 3
    /\ s_result.start = header.major_block_count - 1
    /\ StepAfter(s_result.start) = MAX_DELTA_T
    /\ StepAfter(0) = -MAX_DELTA_T - 1
    /\ s_result.out.result
    /\ s_result.out.start = 1


(***************************************************************************)
(* Properties of the timestamp fit of advance_index.                       *)
(***************************************************************************)
\* advance_index has written the index entry of the current block and has
\* not yet advanced: timestamp_array holds the timestamps t_1 .. t_k of its
\* minor blocks relative to first_timestamp.
EntryWritten == t_pc = "advance"

WrittenEntry == data_index[header.current_major_block]

Spacing(i) == timestamp_array[i] - timestamp_array[i - 1]

StrictlyIncreasing == \A i \in 1..(timestamp_count - 1) : Spacing(i) > 0

UniformlySpaced == \A i \in 1..(timestamp_count - 1) : Spacing(i) = Spacing(1)

\* |duration - (t_k - t_1) * k / (k - 1)| <= 1, cleared of the fraction.
WithinOneOfEndToEnd ==
    LET k == timestamp_count
        span == timestamp_array[k - 1] - timestamp_array[0]
        excess == WrittenEntry.duration * (k - 1) - span * k
    IN  excess <= k - 1 /\ -excess <= k - 1

\* C16 as stated: for any sequence of k = timestamp_count >= 2 non-gap
\* minor blocks with strictly increasing timestamps t_1 < ... < t_k within
\* one major block, the duration stored by advance_index satisfies
\* |duration - (t_k - t_1) * k / (k - 1)| <= 1.
C16_DurationEndToEnd ==
    (EntryWritten /\ timestamp_count >= 2 /\ StrictlyIncreasing)
        => WithinOneOfEndToEnd

\* C16 as the code has it: for strictly increasing timestamps the stored
\* duration lies between k times the least spacing, less 1, and k times
\* the greatest spacing (it is k times the slope of the least squares fit,
\* a weighted mean of the spacings), and it is within 1 of
\* (t_k - t_1) * k / (k - 1) when k <= 3 or the spacing is uniform.
C16_DurationIsFittedSlope ==
    (EntryWritten /\ timestamp_count >= 2 /\ StrictlyIncreasing) =>
        /\ \E i \in 1..(timestamp_count - 1) :
              WrittenEntry.duration > timestamp_count * Spacing(i) - 1
        /\ \E i \in 1..(timestamp_count - 1) :
              WrittenEntry.duration <= timestamp_count * Spacing(i)
        /\ (timestamp_count <= 3 \/ UniformlySpaced) => WithinOneOfEndToEnd

\* A major block of four minor blocks whose spacings differ.
C16_Witness ==
    /\ EntryWritten
    /\ timestamp_count = 4
    /\ StrictlyIncreasing
    /\ ~UniformlySpaced
    /\ WrittenEntry.duration > timestamp_count * Spacing(2)

\* The sum of the squares of t_i = 2i - (count - 1), i = 0 .. n - 1.
RECURSIVE SumOfSquaredT(_)
SumOfSquaredT(n) ==
    IF n = 0 THEN 0
    ELSE SumOfSquaredT(n - 1)
            + (2 * (n - 1) - (timestamp_count - 1))
                * (2 * (n - 1) - (timestamp_count - 1))

\* C17: when the timestamp_count >= 2 minor-block timestamps of a major
\* block are uniformly spaced by delta, advance_index stores a duration
\* within 1 of timestamp_count * delta and a start timestamp within 1 of
\* first_timestamp - delta, using t_i = 2i - (count - 1) and
\* sum t^2 = count * (count^2 - 1) / 3.
C17_UniformSpacingFit ==
    (EntryWritten /\ timestamp_count >= 2 /\ UniformlySpaced) =>
        LET delta == Spacing(1)
            duration_error ==
                WrittenEntry.duration - timestamp_count * delta
            start_error ==
                WrittenEntry.timestamp - (first_timestamp - delta)
        IN  /\ duration_error \in {-1, 0, 1}
            /\ start_error \in {-1, 0, 1}
            /\ sum_t2 = SumOfSquaredT(timestamp_count)
            /\ 3 * sum_t2 =
                  timestamp_count * (timestamp_count * timestamp_count - 1)

\* A major block of three uniformly spaced minor blocks.
C17_Witness ==
    /\ EntryWritten
    /\ timestamp_count = 3
    /\ UniformlySpaced
    /\ Spacing(1) > 0
    /\ WrittenEntry.duration = 3 * Spacing(1)
    /\ WrittenEntry.timestamp = first_timestamp - Spacing(1)


(***************************************************************************)
(* Properties of the decimation.                                           *)
(***************************************************************************)
\* process_block is given a data block in this step; the block is the last
\* of recent'.
DataStep == calls' = calls + 1 /\ last_event' = "data"
BlockGiven == recent'[Len(recent')]

D1 == 2 ^ header.first_decimation_log2
D1D2 == 2 ^ (header.first_decimation_log2 + header.second_decimation_log2)

\* The entries of id of the frames from..(from + n - 1) of a sequence of
\* frames, and their sums.
Samples(frames, id, from, n) ==
    { frames[f][id] : f \in from..(from + n - 1) }

RECURSIVE SampleSum(_, _, _, _)
SampleSum(frames, id, from, n) ==
    IF n = 0 THEN [x |-> 0, y |-> 0]
    ELSE LET rest == SampleSum(frames, id, from, n - 1)
             last == frames[from + n - 1][id]
         IN  [x |-> rest.x + last.x, y |-> rest.y + last.y]

\* The slot has the least and the greatest of the n samples and the floor
\* of their mean.
SlotOf(slot, frames, id, from, n) ==
    LET samples == Samples(frames, id, from, n)
        sum == SampleSum(frames, id, from, n)
    IN  /\ \E e \in samples : e.x = slot.min.x
        /\ \E e \in samples : e.x = slot.max.x
        /\ \E e \in samples : e.y = slot.min.y
        /\ \E e \in samples : e.y = slot.max.y
        /\ \A e \in samples :
              /\ slot.min.x <= e.x /\ e.x <= slot.max.x
              /\ slot.min.y <= e.y /\ e.y <= slot.max.y
        /\ slot.mean.x * n <= sum.x /\ sum.x < (slot.mean.x + 1) * n
        /\ slot.mean.y * n <= sum.y /\ sum.y < (slot.mean.y + 1) * n

\* C18: for every archived id and every group of D1 =
\* 2^first_decimation_log2 consecutive input samples (x_i, y_i), the
\* first-stage decimated slot has min and max exactly equal to the sample
\* minimum and maximum of x and of y, and mean = floor(sum / D1), so that
\* |recorded_mean - true_mean| <= 1 (including negative sums).
C18_FirstDecimationSlots ==
    [][DataStep =>
        \A w \in 0..(output_id_count - 1) :
            \A i \in 0..(input_decimation_count - 1) :
                SlotOf(buffers'[current_buffer].d[w][d_offset + i],
                       BlockGiven, ArchivedId(header.archive_mask, w),
                       i * D1 + 1, D1)]_vars

\* A slot of two samples whose sum is negative and odd: the mean is the
\* floor, one half below the true mean.
C18_Witness ==
    /\ last_event = "data"
    /\ D1 = 2
    /\ d_offset > 0
    /\ recent # << >>
    /\ \E w \in 0..(output_id_count - 1) :
          LET slot == buffers[current_buffer].d[w][d_offset - 1]
              sum == SampleSum(recent[Len(recent)],
                               ArchivedId(header.archive_mask, w),
                               input_frame_count - D1 + 1, D1)
          IN  /\ slot # Unwritten
              /\ sum.x < 0
              /\ sum.x % 2 = 1
              /\ 2 * slot.mean.x = sum.x - 1
              /\ slot.min.x < slot.max.x

\* A group has been decimated.
Decimated == s_result # NothingSeen /\ "accum" \in DOMAIN s_result

\* The sum and the exact sum of squares, of any width, of the n first
\* values of xs.
RECURSIVE SumOf(_, _)
SumOf(xs, n) == IF n = 0 THEN 0 ELSE SumOf(xs, n - 1) + xs[n]

RECURSIVE SumOfSquares(_, _)
SumOfSquares(xs, n) ==
    IF n = 0 THEN << >>
    ELSE WAdd(SumOfSquares(xs, n - 1),
              WMul(WFromNat(Abs(xs[n])), WFromNat(Abs(xs[n]))))

\* std is within one of the rounded standard deviation of the values xs,
\* whichever way a half is rounded: the standard deviation lies between
\* std - 3/2 and std + 3/2.  With n values, 2 * n times the standard
\* deviation is the root of 4 * (n * sum of squares - sum^2).
StdWithinOne(std, xs) ==
    LET n == Len(xs)
        spread == WMulLimb(
                      WSub(WMulLimb(SumOfSquares(xs, n), n),
                           WMul(WFromNat(Abs(SumOf(xs, n))),
                                WFromNat(Abs(SumOf(xs, n))))), 4)
        above == WMulLimb(WFromNat(2 * std + 3), n)
        below == WMulLimb(WFromNat(2 * std - 3), n)
    IN  /\ ~WLess(WMul(above, above), spread)
        /\ 2 * std > 3 => ~WLess(spread, WMul(below, below))

GroupX == [f \in DOMAIN s_target |-> s_target[f][s_result.id].x]
GroupY == [f \in DOMAIN s_target |-> s_target[f][s_result.id].y]

\* C19: for every group of D1 = 2^s int32 samples the recorded standard
\* deviation differs by at most one from the rounded standard deviation of
\* the samples and is never negative, and the accumulator of the squares
\* holds their exact sum, which has no more than 128 bits.
C19_StdWithinOne ==
    Decimated =>
        /\ StdWithinOne(s_result.out.std.x, GroupX)
        /\ StdWithinOne(s_result.out.std.y, GroupY)
        /\ s_result.out.std.x >= 0
        /\ s_result.out.std.y >= 0
        /\ s_result.accum.sum_sq_x = SumOfSquares(GroupX, Len(GroupX))
        /\ s_result.accum.sum_sq_y = SumOfSquares(GroupY, Len(GroupY))
        /\ WBitLen(s_result.accum.sum_sq_x) <= 128
        /\ WBitLen(s_result.accum.sum_sq_y) <= 128

\* The frames received since the last gap or advance, in order.
RECURSIVE FramesOf(_)
FramesOf(received) ==
    IF received = << >> THEN << >>
    ELSE FramesOf(SubSeq(received, 1, Len(received) - 1))
            \o received[Len(received)]

SlotOrdered(slot) ==
    /\ slot.min.x <= slot.mean.x /\ slot.mean.x <= slot.max.x
    /\ slot.min.y <= slot.mean.y /\ slot.mean.y <= slot.max.y

BlockOfSlot(i) == (i % header.dd_total_count) \div header.dd_sample_count

DDModified == dd_offset' # dd_offset \/ dd_area' # dd_area

WriteHeaderCalled ==
    \/ w_pc = "get" /\ w_pc' = "wait" /\ w_archiving
    \/ /\ w_pc = "write" /\ w_pc' = "get"
       /\ get_now(clock') # disk_header.blocks[0].stop_sec
    \/ m_pc = "join" /\ m_pc' = "closed"

\* start_archive_block is called in this step.
SegmentStarts == segments' = segments + 1

\* The header was last written in the second now read from the clock.
WrittenThisSecond ==
    /\ header_mmap.h.block_count > 0
    /\ header_mmap.blocks[0].stop_sec = get_now(clock')

\* C28: write_header is called at most once in a wall-clock second unless a
\* new archive segment starts, and when a segment starts the header that
\* describes it is written at once, by start_archive_block.
C28_HeaderFlushes ==
    [][/\ SegmentStarts => header_mmap' = disk_header'
       /\ (WriteHeaderCalled /\ WrittenThisSecond) => SegmentStarts]_vars

(***************************************************************************)
(* Properties of the sniffer thread.                                       *)
(***************************************************************************)
\* The thread reserves a write block in this step.
Reserves == sn_pc = "get" /\ sn_pc' = "read"

\* The calls made since a write block was reserved are well ordered: the
\* block is read into, then committed once, with gap = false and the
\* timestamp of the read if the read succeeded and as a gap if not; only
\* after a failed read come a sleep of one second and then a reset.
RoundInOrder(events) ==
    /\ Len(events) <= 5
    /\ Len(events) >= 1 => events[1].op = "get_write_block"
    /\ Len(events) >= 2 => events[2].op = "read"
    /\ Len(events) >= 3 =>
          /\ events[3].op = "release_write_block"
          /\ events[3].gap = ~events[2].ok
          /\ events[2].ok => events[3].timestamp = events[2].timestamp
    /\ Len(events) >= 4 =>
          /\ ~events[2].ok
          /\ events[4] = [op |-> "sleep", seconds |-> 1]
    /\ Len(events) >= 5 => events[5].op = "reset"

\* The calls of a whole round: a read that succeeded and its commit, or a
\* read that failed, its commit, the sleep and the reset.
RoundComplete(events) ==
    \/ Len(events) = 3 /\ events[2].ok
    \/ Len(events) = 5

\* C21: every write block obtained with get_write_block is committed with
\* release_write_block exactly once before the next is reserved; a
\* successful read commits with gap = false and the timestamp of the read;
\* a failed read commits a gap and is followed, in this order, by a sleep
\* of one second and exactly one reset before the next block is reserved;
\* reset is never called after a successful read.
C21_SnifferRounds ==
    /\ [](RoundInOrder(sn_events))
    /\ [][Reserves =>
            (sn_events = << >> \/ RoundComplete(sn_events))]_vars

\* A successful read and then a failed one have been committed, and after
\* the sleep and the reset the thread is about to reserve the next block.
C21_Witness ==
    /\ sn_pc = "get"
    /\ sn_outcomes = << TRUE, FALSE >>
    /\ Len(sn_events) = 5
    /\ sn_events[3].gap
    /\ sn_events[5].op = "reset"

\* The reads whose change of state has been logged, if any.
Logged ==
    IF sn_pc \in {"release", "log"}
    THEN SubSeq(sn_outcomes, 1, Len(sn_outcomes) - 1)
    ELSE sn_outcomes

\* The messages due for the n first of the outcomes: one for each outcome
\* that differs from the one before, the thread starting in the ok state.
RECURSIVE ChangeMessages(_, _)
ChangeMessages(outcomes, n) ==
    IF n = 0 THEN << >>
    ELSE LET before == IF n = 1 THEN TRUE ELSE outcomes[n - 1]
             rest == ChangeMessages(outcomes, n - 1)
         IN  IF outcomes[n] = before THEN rest
             ELSE IF outcomes[n]
             THEN Append(rest, "Block read successfully")
             ELSE Append(rest, "Unable to read block")

\* The messages about the reads, without the status that may follow
\* "Unable to read block".
IsReadMessage(message) ==
    message \in {"Block read successfully", "Unable to read block",
                 "Unable to read block: status"}

ReadMessages ==
    LET logged == SelectSeq(sn_log, IsReadMessage)
    IN  [i \in DOMAIN logged |->
            IF logged[i] = "Unable to read block: status"
            THEN "Unable to read block"
            ELSE logged[i]]

\* C22: for any sequence of read outcomes the thread logs exactly one
\* message for each change between the ok state and the gap state, the
\* thread starting in the ok state: "Unable to read block" when a read
\* fails after a success, "Block read successfully" when a read succeeds
\* after a failure, and none for a read whose outcome is that of the read
\* before.
C22_OneMessagePerChange ==
    ReadMessages = ChangeMessages(Logged, Len(Logged))

(***************************************************************************)
(* Properties of the filter masks.                                         *)
(***************************************************************************)
\* A mask has been formatted and the string parsed again.
FormattedThenParsed ==
    /\ s_target.kind = "mask"
    /\ s_result # NothingSeen
    /\ s_result.op = "parse_mask"

\* C23: for every entry count that is a multiple of 8 and every mask over
\* its ids with at least one bit set, parse_mask on the string that
\* format_mask produced succeeds and yields the mask again, in the readable
\* form and in the raw form alike.
C23_RoundTrip ==
    (FormattedThenParsed /\ Cardinality(s_target.mask) >= 1) =>
        /\ s_result.parsed.ok
        /\ s_result.parsed.mask = s_target.mask

\* A mask of several runs went through the raw form and came back.
C23_Witness ==
    /\ FormattedThenParsed
    /\ s_target.fa_entry_count = 32
    /\ s_target.mask = {0, 1, 2, 3, 7, 10, 11, 12, 30}
    /\ s_result.formatted.text[1] = "R"
    /\ s_result.parsed.ok
    /\ s_result.parsed.mask = s_target.mask

\* format_mask has just been called, on FormattedMask.
Formatted == s_result # NothingSeen /\ s_result.op = "format_mask"
FormattedMask ==
    IF s_target.kind = "mask" THEN s_target.mask ELSE s_result.parsed.mask

\* The readable form of a mask: its maximal runs in ascending order, a-b
\* for a run of more than one id and the id itself otherwise, separated by
\* commas.
RunStarts(mask) == { a \in mask : a - 1 \notin mask }
RunEnd(mask, a) ==
    CHOOSE b \in mask : b >= a /\ b + 1 \notin mask /\ a..b \subseteq mask
RunText(mask, a) ==
    IF RunEnd(mask, a) > a
    THEN DecimalText(a) \o << "-" >> \o DecimalText(RunEnd(mask, a))
    ELSE DecimalText(a)

RECURSIVE RunsText(_, _)
RunsText(mask, starts) ==
    IF starts = {} THEN << >>
    ELSE LET a == CHOOSE low \in starts : \A other \in starts : low <= other
         IN  IF starts = {a}
             THEN RunText(mask, a)
             ELSE RunText(mask, a) \o << "," >>
                  \o RunsText(mask, starts \ {a})

ReadableText(mask) == RunsText(mask, RunStarts(mask))

\* R followed by fa_entry_count / 4 upper-case hex digits.
IsRawText(text, fa_entry_count) ==
    /\ Len(text) = 1 + fa_entry_count \div 4
    /\ text[1] = "R"
    /\ \A i \in 2..Len(text) :
          \E d \in DOMAIN HexDigits : HexDigits[d] = text[i]

\* format_mask gives the readable form of masks whose readable form has at
\* most longest characters, and the raw form of the others.
ReadableUpTo(longest) ==
    Formatted =>
        IF Len(ReadableText(FormattedMask)) <= longest
        THEN s_result.formatted.text = ReadableText(FormattedMask)
        ELSE IsRawText(s_result.formatted.text, s_target.fa_entry_count)

\* C24 as stated: format_mask emits the readable form whenever that text is
\* at most N/4 characters long, and the raw form only when the readable text
\* would exceed N/4 characters.
C24_ReadableUpToQuarter == ReadableUpTo(s_target.fa_entry_count \div 4)

\* C24: format_mask emits the readable form (ascending maximal runs, a-b for
\* a run of more than one id, a single id otherwise, comma separated)
\* whenever that text is at most N/4 - 2 characters long, and falls back to
\* the raw form, R followed by N/4 upper-case hex digits, only when the
\* readable text would exceed N/4 - 2 characters.
C24_ReadableUpToQuarterLessTwo ==
    ReadableUpTo(s_target.fa_entry_count \div 4 - 2)

\* A readable text of exactly N/4 - 2 characters was emitted.
C24_Witness ==
    /\ Formatted
    /\ s_target.kind = "mask"
    /\ s_target.fa_entry_count = 32
    /\ s_target.mask = {0, 1, 2, 3, 10}
    /\ s_result.formatted.text = << "0", "-", "3", ",", "1", "0" >>

\* The list of the example has been parsed with 16 entries, and the mask
\* perhaps formatted again.
ExampleListParsed ==
    /\ s_target.string = ExampleList
    /\ s_target.fa_entry_count = 16
    /\ s_result # NothingSeen
    /\ s_result.op \in {"parse_mask", "format_mask"}

\* parse_mask on the example list yields the ids 0-3, 7 and 10-12, and
\* format_mask of that mask yields text.
ExampleListGives(text) ==
    ExampleListParsed =>
        /\ s_result.parsed.ok
        /\ s_result.parsed.mask = {0, 1, 2, 3, 7, 10, 11, 12}
        /\ s_result.op = "format_mask" => s_result.formatted.text = text

\* C25 as stated: with N = 16, parse_mask("0-3,7,10-12") yields the set
\* {0,1,2,3,7,10,11,12}, and format_mask of that set yields the string
\* "0-3,7,10-12" again.
C25_ExampleListComesBack == ExampleListGives(ExampleList)

\* C25: with N = 16, parse_mask("0-3,7,10-12") yields the set
\* {0,1,2,3,7,10,11,12}, and format_mask of that set yields the raw string
\* "R1C8F".
C25_ExampleListComesBackRaw ==
    ExampleListGives(<< "R", "1", "C", "8", "F" >>)

\* The example list was parsed and its mask formatted.
C25_Witness ==
    /\ ExampleListParsed
    /\ s_result.op = "format_mask"
    /\ s_result.parsed.mask = {0, 1, 2, 3, 7, 10, 11, 12}
    /\ s_result.formatted.text[1] = "R"

\* parse_mask has been called on string with 16 entries, and the mask
\* perhaps formatted again.
RawParsed(string) ==
    /\ s_target.string = string
    /\ s_target.fa_entry_count = 16
    /\ s_result # NothingSeen
    /\ s_result.op \in {"parse_mask", "format_mask"}

\* parse_mask succeeded, read length characters and yielded mask.
ParsedAs(length, mask) ==
    /\ s_result.parsed.ok
    /\ s_result.parsed.pos = length + 1
    /\ s_result.parsed.mask = mask

\* C26 as stated: with N = 16, parse_mask("R0000C080") succeeds, consumes
\* the whole string and yields the set {7,10,11,12}, and formatting that set
\* back yields the readable range form.
C26_ExampleRawWhole ==
    RawParsed(ExampleRaw) =>
        /\ ParsedAs(Len(ExampleRaw), {7, 10, 11, 12})
        /\ s_result.op = "format_mask" =>
              s_result.formatted.text = ReadableText({7, 10, 11, 12})

\* C26: with N = 16, parse_mask("R0000C080") succeeds but reads only
\* "R0000" and yields the empty set; the set {7,10,11,12} is what
\* parse_mask("R1C80") yields, consuming the whole string (raw form: N/4 hex
\* digits, most-significant byte first in the text), and formatting that set
\* back yields the raw form "R1C80" again.
C26_ExampleRawShort ==
    /\ RawParsed(ExampleRaw) => ParsedAs(5, {})
    /\ RawParsed(ExampleShortRaw) =>
          /\ ParsedAs(Len(ExampleShortRaw), {7, 10, 11, 12})
          /\ s_result.op = "format_mask" =>
                s_result.formatted.text = ExampleShortRaw

\* The raw mask of four digits was parsed and its mask formatted.
C26_Witness ==
    /\ RawParsed(ExampleShortRaw)
    /\ s_result.op = "format_mask"
    /\ s_result.parsed.mask = {7, 10, 11, 12}
    /\ s_result.formatted.text = ExampleShortRaw

\* One of the two parse_mask has been called on a list of ranges; the
\* result stays in place when the mask is formatted afterwards.
ListParsed == s_target.kind = "list" /\ s_result # NothingSeen

\* The ids a range lists.
RangeIds(range) ==
    IF range.high = no_end THEN {range.low} ELSE range.low..range.high

ListedIds ==
    UNION { RangeIds(s_target.ranges[i]) : i \in DOMAIN s_target.ranges }

\* The list has an id that is not below the entry count.
IdOutOfRange ==
    \E i \in DOMAIN s_target.ranges :
        \/ s_target.ranges[i].low >= s_target.fa_entry_count
        \/ s_target.ranges[i].high >= s_target.fa_entry_count

\* The list has a range whose start is greater than its end.
EmptyRange ==
    \E i \in DOMAIN s_target.ranges :
        /\ s_target.ranges[i].high # no_end
        /\ s_target.ranges[i].low > s_target.ranges[i].high

\* parse_mask has been called on a raw mask.
RawMaskParsed ==
    /\ s_target.kind = "raw"
    /\ s_result # NothingSeen
    /\ s_result.op = "parse_mask"

\* One of the characters that make up the raw mask is not in 0-9A-F.
BadRawCharacter ==
    \E i \in 1..(s_target.fa_entry_count \div 4) :
        \A d \in DOMAIN HexDigits :
            HexDigits[d] # CharAt(s_target.string, i + 1)

\* C27: parse_mask returns failure for a list containing an id >= N ("id
\* out of range"), for a range whose start is greater than its end ("empty
\* range"; a range a-a is accepted), and for a raw mask containing a
\* character outside 0-9A-F ("unexpected character"); whenever it returns
\* success every set bit of the result is < N and the result is exactly the
\* union of the listed ranges.
C27_ParseErrors ==
    /\ ListParsed =>
          /\ s_result.parsed.ok <=> ~(IdOutOfRange \/ EmptyRange)
          /\ (IdOutOfRange /\ ~EmptyRange) =>
                s_result.parsed.error = "id out of range"
          /\ (EmptyRange /\ ~IdOutOfRange) =>
                s_result.parsed.error = "empty range"
          /\ s_result.parsed.ok =>
                /\ s_result.parsed.mask = ListedIds
                /\ \A id \in s_result.parsed.mask :
                      id < s_target.fa_entry_count
    /\ RawMaskParsed =>
          /\ BadRawCharacter =>
                /\ ~s_result.parsed.ok
                /\ s_result.parsed.error = "unexpected character"
          /\ s_result.parsed.ok =>
                \A id \in s_result.parsed.mask : id < s_target.fa_entry_count

\* A list whose second range ends at the entry count was refused.
C27_Witness ==
    /\ ListParsed
    /\ s_result.op = "parse_mask"
    /\ s_target.fa_entry_count = 16
    /\ s_target.string = << "7", "-", "7", ",", "1", "2", "-", "1", "6" >>
    /\ ~s_result.parsed.ok
    /\ s_result.parsed.error = "id out of range"

\* C40: format_mask returns the number of characters it wrote to the
\* buffer, the terminating NUL not counted, for every mask and every entry
\* count, in the readable form and in the raw form alike.
C40_FormatMaskLength ==
    Formatted => s_result.formatted.length = Len(s_result.formatted.text)

(***************************************************************************)
(* Properties of the corrector extraction.                                 *)
(***************************************************************************)
\* C39: for every entry count accepted by sniffer initialisation the sniffer
\* thread never reaches a failing assertion while processing a block: the
\* corrector extraction applied to every block, after successful and failed
\* reads alike, does not abort and only writes inside the frame.
C39_ExtractionNeverAborts ==
    /\ sn_pc # "aborted"
    /\ \A entry \in sn_written : entry < sn_config.fa_entry_count

(***************************************************************************)
(* Properties of the transform over the geometries.                        *)
(***************************************************************************)
\* The sum of t_i * t_i over the first n timestamps of a major block, for
\* t_i = 2 * i - (timestamp_count - 1).
RECURSIVE SumT2(_)
SumT2(n) ==
    IF n = 0 THEN 0
    ELSE SumT2(n - 1)
            + (2 * (n - 1) - (timestamp_count - 1))
                  * (2 * (n - 1) - (timestamp_count - 1))

\* C38: advance_index never divides by zero: in every geometry whose
\* major_sample_count is a positive multiple of input_frame_count, when
\* advance_index runs its divisor sum_t2 is the sum of the t_i squared and
\* is strictly positive, and the process is never stopped by the division.
C38_NoDivisionByZero ==
    /\ t_pc = "index" =>
          /\ timestamp_count >= 1
          /\ sum_t2 = SumT2(timestamp_count)
          /\ sum_t2 > 0
    /\ t_pc # "crashed"

\* process_block is not running: the state between two calls.
BetweenCalls == t_pc = "idle"

\* C34 as stated: between calls to process_block, in every geometry whose
\* major_sample_count is a positive multiple of input_frame_count and after
\* any sequence of data blocks and gaps, fa_offset < major_sample_count,
\* fa_offset = timestamp_index * input_frame_count,
\* d_offset = fa_offset >> first_decimation_log2 and
\* timestamp_index < timestamp_count.
C34_OffsetsInStep ==
    BetweenCalls =>
        /\ fa_offset < header.major_sample_count
        /\ fa_offset = timestamp_index * input_frame_count
        /\ d_offset = Shr(fa_offset, header.first_decimation_log2)
        /\ timestamp_index < timestamp_count

\* C34 as amended: the same, with d_offset the number of decimated samples
\* of the input blocks taken so far,
\* d_offset = timestamp_index * (input_frame_count >> first_decimation_log2),
\* which is fa_offset >> first_decimation_log2 where input_frame_count is a
\* multiple of the first decimation factor, and never more than
\* major_sample_count >> first_decimation_log2.
C34_OffsetsInStepPerBlock ==
    BetweenCalls =>
        /\ fa_offset < header.major_sample_count
        /\ fa_offset = timestamp_index * input_frame_count
        /\ d_offset =
              timestamp_index
                  * Shr(input_frame_count, header.first_decimation_log2)
        /\ d_offset
              <= Shr(header.major_sample_count, header.first_decimation_log2)
        /\ (input_frame_count % (2 ^ header.first_decimation_log2) = 0 =>
                d_offset = Shr(fa_offset, header.first_decimation_log2))
        /\ timestamp_index < timestamp_count

\* A data block taken after a gap, in a major block that is not yet full.
C34_Witness ==
    /\ BetweenCalls
    /\ gap_seen
    /\ last_event = "data"
    /\ fa_offset = 2
    /\ d_offset = 1
    /\ timestamp_index = 1
    /\ header.major_sample_count = 4

\* C35: whenever fa_offset = 0 between calls to process_block,
\* dd_offset = current_major_block * dd_sample_count, in the geometries with
\* dd_total_count = major_block_count * dd_sample_count,
\* dd_sample_count = major_sample_count / (D1 * D2) and D1 * D2 a multiple
\* of input_frame_count.
DoubleDecimation ==
    2 ^ (header.first_decimation_log2 + header.second_decimation_log2)

DoubleDecimationInStep ==
    /\ header.dd_total_count
          = header.major_block_count * header.dd_sample_count
    /\ header.dd_sample_count * DoubleDecimation = header.major_sample_count
    /\ DoubleDecimation % input_frame_count = 0

C35_CursorAtBlockStart ==
    (BetweenCalls /\ fa_offset = 0 /\ DoubleDecimationInStep) =>
        dd_offset = header.current_major_block * header.dd_sample_count

\* A major block of two double decimated samples was completed and the
\* cursor stands at the start of the second block's slots.
C35_Witness ==
    /\ BetweenCalls
    /\ fa_offset = 0
    /\ DoubleDecimationInStep
    /\ last_event = "data"
    /\ header.dd_sample_count = 2
    /\ header.current_major_block = 1
    /\ dd_offset = 2

(***************************************************************************)
(* Properties of timestamp_to_block.                                       *)
(***************************************************************************)
\* C31: timestamp_to_block(ts, skip_gap), on the block b that binary_search
\* finds for ts, gives offset 0 in b when ts precedes the start of b; the
\* offset floor((ts - start) * major_sample_count / duration) in b when
\* start <= ts < start + duration; offset 0 in block
\* (b + 1) mod major_block_count when ts >= start + duration and skip_gap;
\* offset major_sample_count - 1 in b when ts >= start + duration and not
\* skip_gap; and in every case 0 <= offset < major_sample_count.
\* timestamp_to_start calls it with skip_gap, timestamp_to_end without.
C31_BlockAndOffset ==
    (StartLooked \/ EndLooked) =>
        LET skipping == s_result.op = "timestamp_to_start"
            found == binary_search(s_target)
            start == data_index[found].timestamp
            length == data_index[found].duration
            samples == header.major_sample_count
            out == s_result.out
        IN  /\ s_target < start =>
                  out.block = found /\ out.offset = 0
            /\ (start <= s_target /\ s_target < start + length) =>
                  /\ out.block = found
                  /\ out.offset * length <= (s_target - start) * samples
                  /\ (s_target - start) * samples < (out.offset + 1) * length
            /\ (s_target >= start + length /\ skipping) =>
                  /\ out.block = (found + 1) % header.major_block_count
                  /\ out.offset = 0
            /\ (s_target >= start + length /\ ~skipping) =>
                  out.block = found /\ out.offset = samples - 1
            /\ 0 <= out.offset
            /\ out.offset < samples

\* A time past the end of the block found, which timestamp_to_end clamps to
\* the last sample of that block.
C31_Witness ==
    /\ EndLooked
    /\ data_index[binary_search(s_target)].duration > 0
    /\ s_target > BlockEnd(binary_search(s_target))
    /\ s_result.out.block = binary_search(s_target)
    /\ s_result.out.offset = header.major_sample_count - 1

(***************************************************************************)
(* Properties of the disk writer's loop and of its shutdown.               *)
(***************************************************************************)
\* C32: after every iteration of the disk writer's loop
\* 0 <= write_offset < data_size: write_offset advances by one block size
\* for each block written and is reset to 0, with the file position reset to
\* data_start, as soon as it reaches data_size; with data_size a multiple of
\* the block size and a block-aligned stop_offset resumed from, no write
\* extends beyond data_start + data_size and the file position is
\* data_start + write_offset before each write.
C32_WriteOffsetInDataArea ==
    /\ [](0 <= write_offset /\ write_offset < data_size)
    /\ []((w_pc = "write" /\ writer_running) =>
             file_position = data_start + write_offset)
    /\ [][blocks_written' # blocks_written =>
            /\ data_start <= file_position
            /\ file_position + fa_block_size <= data_start + data_size
            /\ write_offset' =
                  IF write_offset + fa_block_size = data_size
                  THEN 0
                  ELSE write_offset + fa_block_size
            /\ file_position' = data_start + write_offset']_vars

\* The second run resumed after the first block of the data area and wrote
\* up to the end of the area, where write_offset wrapped to 0.
C32_Witness ==
    /\ runs = 2
    /\ w_pc = "get"
    /\ w_archiving
    /\ write_offset = 0
    /\ file_position = data_start
    /\ disk_data[0] = 1
    /\ disk_data[DataBlocks - 1] = 2

\* C36: the disk writer pushes a new directory segment only when it holds a
\* data block obtained from the ring buffer, and that block is then written
\* into the new segment, so that every segment pushed holds at least one
\* written block when the thread ends, also when shutdown is requested
\* before any data arrives or while the writer waits out a gap.
C36_SegmentsHoldData ==
    /\ [][segments' # segments => w_block # NULL]_vars
    /\ []((w_pc = "done" /\ segments > 0) =>
             \E slot \in DOMAIN disk_data : disk_data[slot] = segments)

\* C37: on a fresh archive (block_count = 0 and write_offset = 0 at
\* startup), in a run without gaps and before write_offset wraps for the
\* first time, the single directory segment keeps the start_offset at which
\* it was started, so that after every update_header
\* [blocks[0].start_offset, write_offset) is exactly the bytes written so
\* far.
C37_FreshSegmentKeepsStart ==
    (/\ runs = 1
     /\ segments = 1
     /\ w_archiving
     /\ blocks_written < DataBlocks) =>
        /\ disk_header.h.block_count = 1
        /\ disk_header.blocks[0].start_offset = 0
        /\ write_offset = blocks_written * fa_block_size

\* C33: once terminate_disk_writer has set writer_running = false and
\* called stop_reader, the writer thread, wherever it is in its loop or in
\* get_valid_read_block, eventually exits under fair scheduling; it never
\* writes a NULL block; and the final header flushed by close_header has
\* blocks[0].stop_offset = write_offset and disk_status = 0.
C33_WriterExits ==
    /\ (m_pc = "join") ~> (w_pc = "done")
    /\ (m_pc = "join") ~> (m_pc = "closed")
    /\ [](\A slot \in DOMAIN disk_data : disk_data[slot] # -1)
    /\ [](m_pc = "closed" =>
            /\ ~writer_running
            /\ w_pc = "done"
            /\ header_mmap.blocks[0].stop_offset = write_offset
            /\ header_mmap.h.disk_status = 0)

\* The archiver was shut down while the writer was waiting out a gap that
\* followed written blocks, and the header was closed.
C33_Witness ==
    /\ m_pc = "closed"
    /\ w_pc = "done"
    /\ w_archiving
    /\ w_block = NULL
    /\ blocks_written > 0
    /\ write_offset > 0
    /\ header_mmap.blocks[0].stop_offset = write_offset
    /\ header_mmap.h.disk_status = 0

=============================================================================
